---- MODULE Spec2Model ----
(***************************************************************************)
(* Verification model of noggin: the knowledge manifest (src/manifest.rs), *)
(* its atomic save, the parallel query orchestrator (src/llm/parallel.rs)  *)
(* and the retrying Claude client (src/llm/claude.rs).                     *)
(***************************************************************************)
EXTENDS Integers, Sequences, FiniteSets, TLC

(***************************************************************************)
(* Bounds and input universes                                              *)
(***************************************************************************)
\* longest pattern-id / contributing-file list passed to an insert
MaxIds == 1
\* largest value of the wall clock read by Utc::now()
MaxClock == 1

\* longest list of ModelOutput handed to synthesize
MaxModels == 2
\* longest candidate list of one ModelOutput
MaxArfs == 2
\* most (source, value) pairs of one conflict handed to resolve_all
MaxVotes == 3
\* the largest number of commits in the repository
MaxCommits == 3
\* the largest number of walk_commits calls on one repository
MaxWalks == 2
\* longest pattern-id list of a tracked file and longest contributing-file
\* list of a pattern
MaxLinks == 2
\* longest list of changed files and of deleted paths of one scan
MaxScan == 2
\* the members of a cluster handed to merge_arf_fields
MaxCluster == 3
\* learn runs made one after the other
MaxRuns == 2
\* the tagged entries of one category handed to group_by_similarity
MaxTagged == 3
\* most parents of a scored commit
MaxParents == 2
\* most deltas in the diff of a scored commit
MaxDeltas == 2
\* calls of score_commit on one commit
MaxScoreCalls == 2
\* the scores handed to from_score are the multiples of 0.05 up to this many
MaxScoreSteps == 20

\* longest provider list handed to query_all
MaxProviders == 3
\* largest ClaudeConfig.max_retries explored
MaxRetries == 3

Paths == {"a.rs", "b.rs"}
PatternIds == {"p1"}
\* the pattern ids of the universe in String::cmp order
IdOrder == <<"p1", "p2">>
Hashes == {"h1", "h2"}
CommitShas == {"c1"}
\* the files of the repository that learn runs scan
RunPaths == {"a.rs"}
PatternNames == {"Error Handling"}
\* commit message summaries, one per branch of infer_commit_category
Messages == {"Fix typo", "Add schema migration", "Add feature"}

VARIABLES
    files,      \* Manifest.files: path -> FileEntry
    commits,    \* Manifest.commits: sha -> CommitEntry
    patterns,   \* Manifest.patterns: id -> PatternEntry
    clock,      \* the value Utc::now() returns
    disk,       \* content of the file at the manifest path (NoFile if absent)
    tmp,        \* content of the file at the temp path (NoFile if absent)
    savePc,     \* position inside Manifest::save / process liveness
    saveBuf,    \* `contents`: the serialized manifest being saved
    prevDisk    \* content of the manifest path when the running save began

mvars == <<files, commits, patterns, clock, disk, tmp, savePc, saveBuf, prevDisk>>

VARIABLES
    providers,  \* query_all: the provider list, by name()
    qpc,        \* query_all: "start", "joining", "returned"
    status,     \* per provider future: "unpolled", "pending", "done", "dropped"
    slot,       \* per provider future: its output once done
    issued,     \* number of provider.query calls made
    successes,  \* the local `successes` of query_all
    failures,   \* the local `failures` of query_all
    qresult     \* what query_all returned

qvars == <<providers, qpc, status, slot, issued, successes, failures, qresult>>

VARIABLES
    max_retries,  \* ClaudeConfig.max_retries
    timeout_secs, \* ClaudeConfig.timeout_secs
    cpc,          \* ClaudeClient::query: "loop", "query_once", "sleep", "returned"
    attempts,     \* the local `attempts`
    backoff_ms,   \* the local `backoff_ms`
    attemptLog,   \* what happened to each attempt so far, oldest first
    sleeps,       \* the backoff sleeps taken so far, in ms
    cresult       \* what query returned

cvars == <<max_retries, timeout_secs, cpc, attempts, backoff_ms, attemptLog, sleeps, cresult>>

VARIABLES
    verify,              \* learn_command: the `verify` flag
    scan_changed,        \* scan_result.changed: path -> new hash
    scan_deleted,        \* scan_result.deleted: tracked paths gone from the tree
    significant_commits, \* the unprocessed commits scored Medium or higher: sha -> summary
    lpc,                 \* learn_command: the step it is at
    prompts,             \* the prompts not yet sent, by prompt type
    all_model_outputs,   \* the local `all_model_outputs`
    warnings,            \* the local `warnings`
    unified_arfs,        \* the local `unified_arfs`
    arfs_written,        \* number of records write_arfs was handed
    lresult,             \* what learn_command returned
    candidates_parsed    \* history: candidates parsed over all backends and prompts

lvars == <<verify, scan_changed, scan_deleted, significant_commits, lpc, prompts,
           all_model_outputs, warnings, unified_arfs, arfs_written, lresult,
           candidates_parsed>>

VARIABLES
    outputs,         \* synthesize: the argument, a list of ModelOutput
    spc,             \* synthesize: the step it is at
    pending,         \* the clusters not yet merged, in processing order
    merged_arfs,     \* the local `merged_arfs`
    all_conflicts,   \* the local `all_conflicts`, then `detected`
    conflict_origin, \* history: per conflict, the index in merged_arfs of its cluster
    next_conflict,   \* resolve_all: position of the loop over conflicts
    resolved_count,  \* resolve_all: the local `resolved_count`
    manual_count,    \* resolve_all: the local `manual_count`
    resolutions,     \* history: the Resolution of every conflict handled so far
    sresult,         \* what synthesize returned
    run,             \* 1 for the first call, 2 for a second call on the same argument
    firstResult      \* what the first call returned

svars == <<outputs, spc, pending, merged_arfs, all_conflicts, conflict_origin,
           next_conflict, resolved_count, manual_count, resolutions, sresult, run,
           firstResult>>

VARIABLES
    history,  \* the repository: its commits, oldest first
    wcalls    \* the calls of walk_commits made so far: options and result

wvars == <<history, wcalls>>

\* --- one call of a function that reads its arguments and returns a value ---
VARIABLES
    call_input,   \* the arguments of the call
    call_output   \* what the call returned, NoResult before it returns

pvars == <<call_input, call_output>>

\* --- the repository and the learn runs made on it, one after the other ---
VARIABLES
    tree,          \* the files scan_files walks: path -> content hash
    repo_commits,  \* the non-merge commits that score Medium or higher: sha -> summary
    full,          \* learn_command: the `full` flag of the run
    runs,          \* the learn runs started so far
    this_run,      \* history: what steps 1 to 4 of the latest run found
    prev_run       \* history: the same of the run before it, and what it returned

rvars == <<tree, repo_commits, full, runs, this_run, prev_run>>

vars == <<mvars, qvars, cvars, lvars, svars, wvars, pvars, rvars>>

NoFile == "NoFile"

(***************************************************************************)
(* Sequence helpers                                                        *)
(***************************************************************************)
Contains(seq, x) == \E i \in 1..Len(seq) : seq[i] = x

Range(seq) == {seq[i] : i \in 1..Len(seq)}

SeqsUpTo(S, n) == UNION {[1..k -> S] : k \in 0..n}

\* seq holds sub as a contiguous run of tokens
IsInfix(sub, seq) ==
    \E k \in 0..(Len(seq) - Len(sub)) :
       \A i \in 1..Len(sub) : seq[k + i] = sub[i]

\* map insert / remove on functions used as HashMap
MapInsert(m, k, v) == [x \in (DOMAIN m) \cup {k} |-> IF x = k THEN v ELSE m[x]]

MapRemove(m, k) == [x \in (DOMAIN m) \ {k} |-> m[x]]

EmptyMap == [x \in {} |-> x]

(***************************************************************************)
(* Manifest: pure parts                                                    *)
(***************************************************************************)
FileEntry(path, hash, now, pattern_ids) ==
    [path |-> path, hash |-> hash, last_scanned |-> now, pattern_ids |-> pattern_ids]

CommitEntry(sha, now, category, arf_path) ==
    [sha |-> sha, processed_at |-> now, category |-> category, arf_path |-> arf_path]

PatternEntry(id, name, contributing_files, now) ==
    [id |-> id, name |-> name, contributing_files |-> contributing_files,
     last_updated |-> now]

\* Manifest::get_patterns_for_file
get_patterns_for_file(fs, path) ==
    IF path \in DOMAIN fs THEN fs[path].pattern_ids ELSE <<>>

\* a comparison that takes an untracked path for unchanged
is_file_changed_if_tracked(fs, path, current_hash) ==
    IF path \in DOMAIN fs THEN fs[path].hash # current_hash ELSE FALSE

\* Manifest::is_file_changed
is_file_changed(fs, path, current_hash) ==
    IF path \in DOMAIN fs THEN fs[path].hash # current_hash ELSE TRUE

\* a ledger lookup that finds nothing
is_commit_processed_never(cs, sha) == FALSE

\* Manifest::is_commit_processed
is_commit_processed(cs, sha) == sha \in DOMAIN cs

\* link_pattern_to_file, first half: the file's pattern list
LinkFileSide(fs, pattern_id, file_path) ==
    IF file_path \in DOMAIN fs /\ ~Contains(fs[file_path].pattern_ids, pattern_id)
    THEN [fs EXCEPT ![file_path].pattern_ids = Append(@, pattern_id)]
    ELSE fs

\* link_pattern_to_file, second half: the pattern's contributing files
LinkPatternSide(ps, pattern_id, file_path) ==
    IF pattern_id \in DOMAIN ps /\ ~Contains(ps[pattern_id].contributing_files, file_path)
    THEN [ps EXCEPT ![pattern_id].contributing_files = Append(@, file_path)]
    ELSE ps

\* an invalidation that deletes the pattern
InvalidateByRemoval(ps, pattern_id, now) == MapRemove(ps, pattern_id)

\* invalidate_pattern on the pattern table
InvalidateIn(ps, pattern_id, now) ==
    IF pattern_id \in DOMAIN ps
    THEN [ps EXCEPT ![pattern_id].last_updated = now]
    ELSE ps

\* find_invalidated_patterns: union of the pattern ids of the paths, sorted
find_invalidated_patterns(fs, changedPaths, deletedPaths) ==
    LET invalidated == UNION {Range(get_patterns_for_file(fs, p)) :
                                p \in changedPaths \cup deletedPaths}
    IN  SelectSeq(IdOrder, LAMBDA id : id \in invalidated)

\* infer_commit_category
infer_commit_category(message) ==
    CASE message = "Add schema migration" -> "migration"
      [] message = "Fix typo" -> "bug"
      [] OTHER -> "decision"

(***************************************************************************)
(* Persistence: the TOML document is three top-level tables; a file that   *)
(* is being written holds a prefix of them.                                *)
(***************************************************************************)
\* toml::to_string_pretty(self)
ToToml(fs, cs, ps) ==
    << [table |-> "files", entries |-> fs],
       [table |-> "commits", entries |-> cs],
       [table |-> "patterns", entries |-> ps] >>

TableOf(content, name) ==
    IF \E i \in 1..Len(content) : content[i].table = name
    THEN (CHOOSE c \in Range(content) : c.table = name).entries
    ELSE EmptyMap

\* toml::from_str: every table is #[serde(default)], a missing one is empty
FromToml(content) ==
    [files |-> TableOf(content, "files"),
     commits |-> TableOf(content, "commits"),
     patterns |-> TableOf(content, "patterns")]

\* Manifest::load
Load(content) ==
    IF content = NoFile
    THEN [files |-> EmptyMap, commits |-> EmptyMap, patterns |-> EmptyMap]
    ELSE FromToml(content)

\* a save that writes straight over the manifest
SaveWritePath == "path"

\* where Manifest::save writes the serialized text
SaveWriteTarget == "temp"

(***************************************************************************)
(* Manifest operations (each one call on the in-memory Manifest)           *)
(***************************************************************************)
Idle == savePc = "idle"

\* Manifest::add_or_update_file
add_or_update_file(path, hash, pattern_ids) ==
    /\ Idle
    /\ files' = MapInsert(files, path, FileEntry(path, hash, clock, pattern_ids))
    /\ UNCHANGED <<commits, patterns, clock, disk, tmp, savePc, saveBuf, prevDisk>>
    /\ UNCHANGED <<qvars, cvars, lvars, svars, wvars, pvars, rvars>>

\* a ledger that keeps the newest commit only
add_commit_alone(sha, category, arf_path) ==
    /\ Idle
    /\ commits' = MapInsert(EmptyMap, sha, CommitEntry(sha, clock, category, arf_path))
    /\ UNCHANGED <<files, patterns, clock, disk, tmp, savePc, saveBuf, prevDisk>>
    /\ UNCHANGED <<qvars, cvars, lvars, svars, wvars, pvars, rvars>>

\* Manifest::add_commit
add_commit(sha, category, arf_path) ==
    /\ Idle
    /\ commits' = MapInsert(commits, sha, CommitEntry(sha, clock, category, arf_path))
    /\ UNCHANGED <<files, patterns, clock, disk, tmp, savePc, saveBuf, prevDisk>>
    /\ UNCHANGED <<qvars, cvars, lvars, svars, wvars, pvars, rvars>>

\* Manifest::link_pattern_to_file
link_pattern_to_file(pattern_id, file_path) ==
    /\ Idle
    /\ files' = LinkFileSide(files, pattern_id, file_path)
    /\ patterns' = LinkPatternSide(patterns, pattern_id, file_path)
    /\ UNCHANGED <<commits, clock, disk, tmp, savePc, saveBuf, prevDisk>>
    /\ UNCHANGED <<qvars, cvars, lvars, svars, wvars, pvars, rvars>>

\* Manifest::invalidate_pattern
invalidate_pattern(pattern_id) ==
    /\ Idle
    /\ patterns' = InvalidateIn(patterns, pattern_id, clock)
    /\ UNCHANGED <<files, commits, clock, disk, tmp, savePc, saveBuf, prevDisk>>
    /\ UNCHANGED <<qvars, cvars, lvars, svars, wvars, pvars, rvars>>

\* Manifest::add_or_update_pattern
add_or_update_pattern(id, name, contributing_files) ==
    /\ Idle
    /\ patterns' = MapInsert(patterns, id, PatternEntry(id, name, contributing_files, clock))
    /\ UNCHANGED <<files, commits, clock, disk, tmp, savePc, saveBuf, prevDisk>>
    /\ UNCHANGED <<qvars, cvars, lvars, svars, wvars, pvars, rvars>>

\* Manifest::remove_file: drops the tracking entry, leaves the patterns alone
remove_file(path) ==
    /\ Idle
    /\ files' = MapRemove(files, path)
    /\ UNCHANGED <<commits, patterns, clock, disk, tmp, savePc, saveBuf, prevDisk>>
    /\ UNCHANGED <<qvars, cvars, lvars, svars, wvars, pvars, rvars>>

\* time passes between two calls of Utc::now()
Tick ==
    /\ clock < MaxClock
    /\ clock' = clock + 1
    /\ UNCHANGED <<files, commits, patterns, disk, tmp, savePc, saveBuf, prevDisk>>
    /\ UNCHANGED <<qvars, cvars, lvars, svars, wvars, pvars, rvars>>

(***************************************************************************)
(* learn_command, step 11: the manifest update, ending in save             *)
(***************************************************************************)
\* files after "Remove deleted files" and "Update file hashes"
LearnFiles(fs, deleted, changed, now) ==
    [p \in ((DOMAIN fs) \ deleted) \cup (DOMAIN changed) |->
        IF p \in DOMAIN changed
        THEN FileEntry(p, changed[p], now, <<>>)
        ELSE fs[p]]

\* patterns after "Invalidate affected patterns"
LearnPatterns(ps, invalidated, now) ==
    [id \in DOMAIN ps |->
        IF Contains(invalidated, id)
        THEN [ps[id] EXCEPT !.last_updated = now]
        ELSE ps[id]]

\* commits after "Update commit entries"
LearnCommits(cs, significant, now) ==
    [sha \in (DOMAIN cs) \cup (DOMAIN significant) |->
        IF sha \in DOMAIN significant
        THEN CommitEntry(sha, now, infer_commit_category(significant[sha]), "")
        ELSE cs[sha]]

\* deleted: tracked paths gone from the tree; changed: path -> new hash;
\* significant: sha -> message summary
LearnUpdateManifest(deleted, changed, significant) ==
    /\ Idle
    /\ deleted \subseteq DOMAIN files
    /\ deleted \cap DOMAIN changed = {}
    /\ LET invalidated == find_invalidated_patterns(files, DOMAIN changed, deleted)
       IN  /\ files' = LearnFiles(files, deleted, changed, clock)
           /\ patterns' = LearnPatterns(patterns, invalidated, clock)
           /\ commits' = LearnCommits(commits, significant, clock)
    /\ saveBuf' = ToToml(files', commits', patterns')
    /\ prevDisk' = disk
    /\ savePc' = "create"
    /\ UNCHANGED <<clock, disk, tmp>>
    /\ UNCHANGED <<qvars, cvars, lvars, svars, wvars, pvars, rvars>>

(***************************************************************************)
(* Manifest::save, step by step, and the ways it can be cut short          *)
(***************************************************************************)
\* a direct call of save: serialize, create the parent directory
SaveBegin ==
    /\ Idle
    /\ saveBuf' = ToToml(files, commits, patterns)
    /\ prevDisk' = disk
    /\ savePc' = "create"
    /\ UNCHANGED <<files, commits, patterns, clock, disk, tmp>>
    /\ UNCHANGED <<qvars, cvars, lvars, svars, wvars, pvars, rvars>>

\* fs::write opens its target with create + truncate
SaveCreate ==
    /\ savePc = "create"
    /\ IF SaveWriteTarget = "temp"
       THEN tmp' = <<>> /\ UNCHANGED disk
       ELSE disk' = <<>> /\ UNCHANGED tmp
    /\ savePc' = "write"
    /\ UNCHANGED <<files, commits, patterns, clock, saveBuf, prevDisk>>
    /\ UNCHANGED <<qvars, cvars, lvars, svars, wvars, pvars, rvars>>

\* fs::write writes the text piece by piece
SaveWrite ==
    /\ savePc = "write"
    /\ LET target == IF SaveWriteTarget = "temp" THEN tmp ELSE disk
           next == Append(target, saveBuf[Len(target) + 1])
       IN  /\ Len(target) < Len(saveBuf)
           /\ IF SaveWriteTarget = "temp"
              THEN tmp' = next /\ UNCHANGED disk
              ELSE disk' = next /\ UNCHANGED tmp
           /\ savePc' = IF Len(next) = Len(saveBuf) THEN "rename" ELSE "write"
    /\ UNCHANGED <<files, commits, patterns, clock, saveBuf, prevDisk>>
    /\ UNCHANGED <<qvars, cvars, lvars, svars, wvars, pvars, rvars>>

\* fs::rename(temp_path, path): replaces the manifest in one step
SaveRename ==
    /\ savePc = "rename"
    /\ tmp # NoFile
    /\ disk' = tmp
    /\ tmp' = NoFile
    /\ savePc' = "idle"
    /\ saveBuf' = <<>>
    /\ prevDisk' = NoFile
    /\ UNCHANGED <<files, commits, patterns, clock>>
    /\ UNCHANGED <<qvars, cvars, lvars, svars, wvars, pvars, rvars>>

\* an fs call of save returns Err: save returns early, the caller goes on
SaveIoError ==
    /\ savePc \in {"create", "write", "rename"}
    /\ savePc' = "idle"
    /\ saveBuf' = <<>>
    /\ prevDisk' = NoFile
    /\ UNCHANGED <<files, commits, patterns, clock, disk, tmp>>
    /\ UNCHANGED <<qvars, cvars, lvars, svars, wvars, pvars, rvars>>

\* the process dies; what is in memory is lost, the files stay as they are
Crash ==
    /\ savePc \in {"create", "write", "rename"}
    /\ savePc' = "crashed"
    /\ files' = EmptyMap
    /\ commits' = EmptyMap
    /\ patterns' = EmptyMap
    /\ UNCHANGED <<clock, disk, tmp, saveBuf, prevDisk>>
    /\ UNCHANGED <<qvars, cvars, lvars, svars, wvars, pvars, rvars>>

\* the next run: Manifest::load of the manifest path
Restart ==
    /\ savePc = "crashed"
    /\ LET m == Load(disk)
       IN  /\ files' = m.files
           /\ commits' = m.commits
           /\ patterns' = m.patterns
    /\ savePc' = "idle"
    /\ saveBuf' = <<>>
    /\ prevDisk' = NoFile
    /\ UNCHANGED <<clock, disk, tmp>>
    /\ UNCHANGED <<qvars, cvars, lvars, svars, wvars, pvars, rvars>>

\* partial maps from S to T
PartialMaps(S, T) == UNION {[D -> T] : D \in SUBSET S}

\* the operations a caller may invoke on an idle manifest, with inputs from
\* the given universes
ManifestOps(P, H, I, C, M) ==
    \/ \E path \in P, hash \in H, ids \in SeqsUpTo(I, MaxIds) :
          add_or_update_file(path, hash, ids)
    \/ \E sha \in C, m \in M : add_commit(sha, infer_commit_category(m), "")
    \/ \E id \in I, path \in P : link_pattern_to_file(id, path)
    \/ \E id \in I : invalidate_pattern(id)
    \/ \E id \in I, name \in PatternNames, cf \in SeqsUpTo(P, MaxIds) :
          add_or_update_pattern(id, name, cf)
    \/ \E path \in P : remove_file(path)
    \/ \E deleted \in SUBSET P, changed \in PartialMaps(P, H),
          significant \in PartialMaps(C, M) :
          LearnUpdateManifest(deleted, changed, significant)

\* Manifest::save running to its end
SaveRun ==
    \/ SaveBegin
    \/ SaveCreate
    \/ SaveWrite
    \/ SaveRename

\* Manifest::save cut short, and the run after a crash
SaveCut ==
    \/ SaveIoError
    \/ Crash
    \/ Restart

\* the callers of save in a run that can be cut short
CrashOps ==
    \/ \E path \in {"a.rs"}, hash \in Hashes, ids \in SeqsUpTo(PatternIds, MaxIds) :
          add_or_update_file(path, hash, ids)
    \/ \E changed \in PartialMaps({"a.rs"}, Hashes),
          significant \in PartialMaps(CommitShas, {"Fix typo"}) :
          LearnUpdateManifest({}, changed, significant)

(***************************************************************************)
(* Errors (src/error.rs).  Text is a sequence of tokens.                   *)
(***************************************************************************)
RequestFailed(model, source) ==
    [kind |-> "RequestFailed", model |-> model, source |-> source]

InvalidResponse(model, details) ==
    [kind |-> "InvalidResponse", model |-> model, details |-> details]

RateLimitExceeded(model, retry_after) ==
    [kind |-> "RateLimitExceeded", model |-> model, retry_after |-> retry_after]

AuthenticationFailed(model) == [kind |-> "AuthenticationFailed", model |-> model]

ModelUnavailable(model) == [kind |-> "ModelUnavailable", model |-> model]

None == "None"

\* impl Display for LlmError
LlmErrorDisplay(e) ==
    CASE e.kind = "RequestFailed" ->
            <<"Request to ", e.model, " failed: ">> \o e.source
      [] e.kind = "InvalidResponse" ->
            <<"Invalid response from ", e.model, ": ">> \o e.details
      [] e.kind = "RateLimitExceeded" ->
            IF e.retry_after = None
            THEN <<"Rate limit exceeded for ", e.model>>
            ELSE <<"Rate limit exceeded for ", e.model, " (retry after ",
                   ToString(e.retry_after), " seconds)">>
      [] e.kind = "AuthenticationFailed" -> <<"Authentication failed for ", e.model>>
      [] e.kind = "ModelUnavailable" -> <<"Model unavailable: ", e.model>>

\* impl Display for Error, the Error::Llm arm
ErrorDisplay(e) == <<"LLM error: ">> \o LlmErrorDisplay(e)

\* Error::is_retryable
is_retryable(e) == e.kind \in {"RequestFailed", "RateLimitExceeded", "ModelUnavailable"}

\* a retry decision that also retries malformed responses
should_retry_all_but_auth(e) == e.kind # "AuthenticationFailed"

\* a retry decision that forgets to single out authentication failures
should_retry_any(e) == TRUE

\* ClaudeClient::should_retry
should_retry(e) == e.kind \in {"RequestFailed", "RateLimitExceeded", "ModelUnavailable"}

Ok(v) == [ok |-> TRUE, value |-> v]

Err(e) == [ok |-> FALSE, err |-> e]

\* the value of a result variable before the call has produced one
NoResult == [none |-> TRUE]

(***************************************************************************)
(* query_all (src/llm/parallel.rs)                                         *)
(***************************************************************************)
ProviderNames == {"claude", "codex", "gemini"}
Responses == {"r1", "r2"}

\* what one provider's query can return
ProviderOutcomes(name) ==
    {Ok(r) : r \in Responses}
    \cup {Err(RequestFailed(name, <<"mock failure">>)),
          Err(RequestFailed(name, <<"Timeout after ", "30", "s">>)),
          Err(AuthenticationFailed(name))}

\* models.join(", ")
RECURSIVE Join(_, _)
Join(strs, sep) ==
    IF Len(strs) = 0 THEN <<>>
    ELSE IF Len(strs) = 1 THEN <<strs[1]>>
    ELSE <<strs[1], sep>> \o Join(Tail(strs), sep)

\* a loop that puts each failure in front of the earlier ones
RECURSIVE CollectFailuresFirst(_, _, _)
CollectFailuresFirst(names, results, acc) ==
    IF Len(names) = 0 THEN acc
    ELSE LET r == results[1]
             next == IF r.ok
                     THEN [acc EXCEPT !.successes =
                            Append(@, [model |-> names[1], response |-> r.value])]
                     ELSE [acc EXCEPT !.failures =
                            <<[model |-> names[1], error |-> ErrorDisplay(r.err)]>> \o @]
         IN  CollectFailuresFirst(Tail(names), Tail(results), next)

\* the loop over `results`: one push per provider, in list order
RECURSIVE Collect(_, _, _)
Collect(names, results, acc) ==
    IF Len(names) = 0 THEN acc
    ELSE LET r == results[1]
             next == IF r.ok
                     THEN [acc EXCEPT !.successes =
                            Append(@, [model |-> names[1], response |-> r.value])]
                     ELSE [acc EXCEPT !.failures =
                            Append(@, [model |-> names[1], error |-> ErrorDisplay(r.err)])]
         IN  Collect(Tail(names), Tail(results), next)

\* a result check that takes any aggregate for a result
has_results_always(succ) == Len(succ) >= 0

\* ParallelResult::has_results
has_results(succ) == Len(succ) > 0

\* the error built when no provider succeeded
AllFailedError(fails) ==
    RequestFailed("parallel",
        <<"All ", ToString(Len(fails)), " providers failed: ">>
            \o Join([i \in 1..Len(fails) |-> fails[i].model], ", "))

\* the error returned for an empty provider list
NoProvidersError == RequestFailed("parallel", <<"No providers configured">>)

\* a join that resolves with the first future to resolve
JoinFirst(st) == \E i \in 1..Len(st) : st[i] = "done"

\* join_all resolves when every future has resolved
JoinReady(st) == \A i \in 1..Len(st) : st[i] = "done"

\* query_all is called: the empty check, then the first poll of join_all
\* polls every future once, which calls provider.query
QueryAllStart ==
    /\ qpc = "start"
    /\ IF Len(providers) = 0
       THEN /\ qresult' = Err(NoProvidersError)
            /\ qpc' = "returned"
            /\ UNCHANGED <<status, issued>>
       ELSE /\ status' = [i \in 1..Len(providers) |-> "pending"]
            /\ issued' = issued + Len(providers)
            /\ qpc' = "joining"
            /\ UNCHANGED qresult
    /\ UNCHANGED <<providers, slot, successes, failures>>
    /\ UNCHANGED <<mvars, cvars, lvars, svars, wvars, pvars, rvars>>

\* provider i's query resolves with a success or a failure of its own
ProviderFinish(i, outcome) ==
    /\ qpc = "joining"
    /\ status[i] = "pending"
    /\ status' = [status EXCEPT ![i] = "done"]
    /\ slot' = [slot EXCEPT ![i] = outcome]
    /\ UNCHANGED <<providers, qpc, issued, successes, failures, qresult>>
    /\ UNCHANGED <<mvars, cvars, lvars, svars, wvars, pvars, rvars>>

\* join_all resolves; the results are sorted into successes and failures and
\* query_all returns, dropping whatever future is still alive
QueryAllReturn ==
    /\ qpc = "joining"
    /\ JoinReady(status)
    /\ LET idx == SelectSeq([i \in 1..Len(providers) |-> i],
                            LAMBDA i : status[i] = "done")
           names == [k \in 1..Len(idx) |-> providers[idx[k]]]
           results == [k \in 1..Len(idx) |-> slot[idx[k]]]
           out == Collect(names, results, [successes |-> <<>>, failures |-> <<>>])
       IN  /\ successes' = out.successes
           /\ failures' = out.failures
           /\ qresult' = IF has_results(out.successes)
                         THEN Ok([successes |-> out.successes, failures |-> out.failures])
                         ELSE Err(AllFailedError(out.failures))
    /\ status' = [i \in 1..Len(providers) |->
                    IF status[i] = "done" THEN "done" ELSE "dropped"]
    /\ qpc' = "returned"
    /\ UNCHANGED <<providers, slot, issued>>
    /\ UNCHANGED <<mvars, cvars, lvars, svars, wvars, pvars, rvars>>

QueryAllNext ==
    \/ QueryAllStart
    \/ \E i \in 1..Len(providers) :
          \E outcome \in ProviderOutcomes(providers[i]) : ProviderFinish(i, outcome)
    \/ QueryAllReturn

(***************************************************************************)
(* ClaudeClient::query (src/llm/claude.rs)                                 *)
(***************************************************************************)
\* the markers parse_error looks for in the lowercased stderr
StderrMarkers == {"429", "401", "503"}

\* the ways one attempt can end: [cause, stderr]
AttemptEnds ==
    {[cause |-> c, stderr |-> {}] :
        c \in {"ok", "spawn_failed", "timeout", "process_error", "invalid_json"}}
    \cup {[cause |-> "exit_failure", stderr |-> m] : m \in SUBSET StderrMarkers}

\* the text of a stderr that holds the given markers
StderrText(markers) == SelectSeq(<<"401", "429", "503">>, LAMBDA m : m \in markers)

\* ClaudeClient::parse_error: rate limit first, then authentication, then 503
parse_error(stderr) ==
    IF "429" \in stderr THEN RateLimitExceeded("claude", None)
    ELSE IF "401" \in stderr THEN AuthenticationFailed("claude")
    ELSE IF "503" \in stderr THEN ModelUnavailable("claude")
    ELSE RequestFailed("claude", StderrText(stderr))

\* the error a timed-out attempt is turned into
TimeoutError(secs) == RequestFailed("claude", <<"Timeout after ", ToString(secs), "s">>)

\* ClaudeClient::query_once, given how the subprocess ended
query_once(end, secs) ==
    CASE end.cause = "ok" -> Ok("agent_message")
      [] end.cause = "spawn_failed" ->
            Err(RequestFailed("claude", <<"Failed to spawn process: ", "io">>))
      [] end.cause = "timeout" -> Err(TimeoutError(secs))
      [] end.cause = "process_error" ->
            Err(RequestFailed("claude", <<"Process error: ", "io">>))
      [] end.cause = "exit_failure" -> Err(parse_error(end.stderr))
      [] end.cause = "invalid_json" ->
            Err(InvalidResponse("claude", <<"Failed to parse JSON: ", "io">>))

\* a guard that lets one attempt too many through
attempts_exhausted_late(a, m) == a > m

\* the guard of the second match arm: attempts >= self.config.max_retries
attempts_exhausted(a, m) == a >= m

\* top of the loop: attempts += 1, query_once is started
ClaudeAttemptStart ==
    /\ cpc = "loop"
    /\ attempts' = attempts + 1
    /\ cpc' = "query_once"
    /\ UNCHANGED <<max_retries, timeout_secs, backoff_ms, attemptLog, sleeps, cresult>>
    /\ UNCHANGED <<mvars, qvars, lvars, svars, wvars, pvars, rvars>>

\* query_once resolves and the match picks its arm
ClaudeAttemptEnd(end) ==
    /\ cpc = "query_once"
    /\ attemptLog' = Append(attemptLog, end)
    /\ LET r == query_once(end, timeout_secs)
       IN  IF r.ok
           THEN /\ cresult' = r
                /\ cpc' = "returned"
                /\ UNCHANGED sleeps
           ELSE IF attempts_exhausted(attempts, max_retries)
           THEN /\ cresult' = r
                /\ cpc' = "returned"
                /\ UNCHANGED sleeps
           ELSE IF should_retry(r.err)
           THEN /\ sleeps' = Append(sleeps, backoff_ms)
                /\ cpc' = "sleep"
                /\ UNCHANGED cresult
           ELSE /\ cresult' = r
                /\ cpc' = "returned"
                /\ UNCHANGED sleeps
    /\ UNCHANGED <<max_retries, timeout_secs, attempts, backoff_ms>>
    /\ UNCHANGED <<mvars, qvars, lvars, svars, wvars, pvars, rvars>>

\* the backoff sleep is over: backoff_ms *= 2 (a u64: 1000 * 2^k stays below
\* 2^64 for every k < 54), back to the top of the loop
ClaudeSleepEnd ==
    /\ cpc = "sleep"
    /\ backoff_ms' = backoff_ms * 2
    /\ cpc' = "loop"
    /\ UNCHANGED <<max_retries, timeout_secs, attempts, attemptLog, sleeps, cresult>>
    /\ UNCHANGED <<mvars, qvars, lvars, svars, wvars, pvars, rvars>>

ClaudeNext ==
    \/ ClaudeAttemptStart
    \/ \E end \in AttemptEnds : ClaudeAttemptEnd(end)
    \/ ClaudeSleepEnd

(***************************************************************************)
(* learn_command (src/commands/learn.rs), steps 4 to 12.  A raw response   *)
(* is the list of its blocks; a record is the token "entry".               *)
(***************************************************************************)
\* the provider list built in step 8
LearnProviders == <<"claude", "codex", "gemini">>

ValidBlock(arf) == [valid |-> TRUE, arf |-> arf]

JunkBlock == [valid |-> FALSE]

\* the response texts a backend gives in a learn run: unparsable, one entry
LearnResponses == {<<JunkBlock>>, <<ValidBlock("entry")>>}

\* what one provider's query can return during a learn run
LearnOutcomes(name) ==
    {Ok(r) : r \in LearnResponses} \cup {Err(RequestFailed(name, <<"mock failure">>))}

ParseFailed(model, details) == [kind |-> "ParseFailed", model |-> model, details |-> details]

NoValidEntries == [kind |-> "NoValidEntries"]

\* impl Display for SynthesisError
SynthesisErrorDisplay(e) ==
    CASE e.kind = "ParseFailed" -> <<"Failed to parse ", e.model, " output: ">> \o e.details
      [] e.kind = "NoValidEntries" -> <<"No valid ARF entries found in any model output">>

\* impl Display for Error, the Error::Synthesis arm
SynthesisDisplay(e) == <<"Synthesis error: ">> \o SynthesisErrorDisplay(e)

\* synthesis::parse_model_response: the blocks that parse, or ParseFailed
parse_model_response(model_name, raw) ==
    IF Len(raw) = 0
    THEN Err(ParseFailed(model_name, <<"empty response">>))
    ELSE LET blocks == SelectSeq(raw, LAMBDA b : b.valid)
         IN  IF Len(blocks) = 0
             THEN Err(ParseFailed(model_name,
                        <<"no valid TOML blocks found in ", "n", " chars of output">>))
             ELSE Ok([i \in 1..Len(blocks) |-> blocks[i].arf])

\* one outcome per provider of the list, in list order
LearnResultVectors ==
    {r \in [1..Len(LearnProviders) ->
              UNION {LearnOutcomes(LearnProviders[i]) : i \in 1..Len(LearnProviders)}] :
        \A i \in 1..Len(LearnProviders) : r[i] \in LearnOutcomes(LearnProviders[i])}

\* what query_all returns once every provider has answered
query_all_result(names, results) ==
    LET out == Collect(names, results, [successes |-> <<>>, failures |-> <<>>])
    IN  IF has_results(out.successes) THEN Ok(out) ELSE Err(AllFailedError(out.failures))

\* step 8, the loop over parallel_result.failures
FailureWarnings(fails, prompt_type) ==
    [i \in 1..Len(fails) |->
        <<fails[i].model, " failed for ", prompt_type, " analysis: ">> \o fails[i].error]

\* step 8, the loop over parallel_result.successes
RECURSIVE ParseSuccesses(_, _, _)
ParseSuccesses(succ, prompt_type, acc) ==
    IF Len(succ) = 0 THEN acc
    ELSE LET r == parse_model_response(succ[1].model, succ[1].response)
             next == IF r.ok
                     THEN [acc EXCEPT
                             !.outputs = Append(@, [model_name |-> succ[1].model,
                                                    arf_files |-> r.value]),
                             !.parsed = @ + Len(r.value)]
                     ELSE [acc EXCEPT
                             !.warnings = Append(@,
                                <<"Failed to parse ", succ[1].model, " output for ",
                                  prompt_type, ": ">> \o SynthesisDisplay(r.err))]
         IN  ParseSuccesses(Tail(succ), prompt_type, next)

\* the contributing files of the patterns that still exist in the tree
collect_pattern_files(ps, pattern_ids, deleted) ==
    UNION {Range(ps[id].contributing_files) : id \in Range(pattern_ids) \cap DOMAIN ps}
        \ deleted

\* a work check that looks at the changed files only
has_work_files_only(changed, significant, deleted, invalidated) == changed # EmptyMap

\* step 5: "Check if there's work to do"
has_work(changed, significant, deleted, invalidated) ==
    \/ changed # EmptyMap
    \/ significant # EmptyMap
    \/ deleted # {}
    \/ Len(invalidated) > 0

\* steps 4 to 7: invalidated patterns, the work check, verify mode, prompts
LearnPlan ==
    /\ lpc = "start"
    /\ LET invalidated == find_invalidated_patterns(files, DOMAIN scan_changed, scan_deleted)
           built == (IF scan_changed # EmptyMap THEN <<"files">> ELSE <<>>)
                    \o (IF significant_commits # EmptyMap THEN <<"commits">> ELSE <<>>)
                    \o (IF /\ Len(invalidated) > 0
                           /\ collect_pattern_files(patterns, invalidated, scan_deleted) # {}
                        THEN <<"patterns">> ELSE <<>>)
       IN  IF ~has_work(scan_changed, significant_commits, scan_deleted, invalidated)
           THEN /\ lresult' = Ok("Nothing to learn. Codebase is up to date.")
                /\ lpc' = "returned"
                /\ UNCHANGED prompts
           ELSE IF verify
           THEN /\ lresult' = Err("Drift detected. Run 'noggin learn' to update.")
                /\ lpc' = "returned"
                /\ UNCHANGED prompts
           ELSE /\ prompts' = built
                /\ lpc' = IF Len(built) = 0 THEN "synthesize" ELSE "query"
                /\ UNCHANGED lresult
    /\ UNCHANGED <<verify, scan_changed, scan_deleted, significant_commits,
                   all_model_outputs, warnings, unified_arfs, arfs_written,
                   candidates_parsed>>
    /\ UNCHANGED <<mvars, qvars, cvars, svars, wvars, pvars, rvars>>

\* step 8, one turn of the loop over prompts: query_all, then the match
LearnQuery(results) ==
    /\ lpc = "query"
    /\ Len(prompts) > 0
    /\ LET prompt_type == Head(prompts)
           q == query_all_result(LearnProviders, results)
           acc == IF q.ok
                  THEN ParseSuccesses(q.value.successes, prompt_type,
                          [outputs |-> all_model_outputs,
                           warnings |-> warnings \o
                                        FailureWarnings(q.value.failures, prompt_type),
                           parsed |-> candidates_parsed])
                  ELSE [outputs |-> all_model_outputs,
                        warnings |-> Append(warnings,
                            <<"All LLMs failed for ", prompt_type, " analysis: ">>
                                \o ErrorDisplay(q.err)),
                        parsed |-> candidates_parsed]
       IN  /\ all_model_outputs' = acc.outputs
           /\ warnings' = acc.warnings
           /\ candidates_parsed' = acc.parsed
    /\ prompts' = Tail(prompts)
    /\ lpc' = IF Len(prompts) = 1 THEN "synthesize" ELSE "query"
    /\ UNCHANGED <<verify, scan_changed, scan_deleted, significant_commits,
                   unified_arfs, arfs_written, lresult>>
    /\ UNCHANGED <<mvars, qvars, cvars, svars, wvars, pvars, rvars>>

\* the number of candidates over a list of ModelOutput
RECURSIVE TotalArfs(_)
TotalArfs(outs) ==
    IF Len(outs) = 0 THEN 0 ELSE Len(outs[1].arf_files) + TotalArfs(Tail(outs))

\* what synthesize can return to step 9: NoValidEntries without candidates,
\* else between one entry and as many as it was given
LearnSynthesisOutcomes(outs) ==
    IF TotalArfs(outs) = 0
    THEN {Err(NoValidEntries)}
    ELSE {Ok([i \in 1..k |-> "entry"]) : k \in 1..TotalArfs(outs)}

\* every result synthesize can hand to a learn run
LearnSynthesisResults ==
    {Err(NoValidEntries)}
    \cup {Ok([i \in 1..k |-> "entry"]) : k \in 1..(2 * Len(LearnProviders))}

\* step 9: no output, a single output taken as it is, or synthesize
LearnSynthesize(synth) ==
    /\ lpc = "synthesize"
    /\ IF Len(all_model_outputs) = 0
       THEN /\ warnings' = Append(warnings, <<"No model outputs to synthesize">>)
            /\ unified_arfs' = <<>>
            /\ UNCHANGED all_model_outputs
       ELSE IF Len(all_model_outputs) = 1
       THEN /\ unified_arfs' = all_model_outputs[1].arf_files
            /\ all_model_outputs' = Tail(all_model_outputs)
            /\ UNCHANGED warnings
       ELSE /\ synth \in LearnSynthesisOutcomes(all_model_outputs)
            /\ IF synth.ok
               THEN unified_arfs' = synth.value /\ UNCHANGED warnings
               ELSE /\ unified_arfs' = <<>>
                    /\ warnings' = Append(warnings,
                          <<"Synthesis failed: ">> \o SynthesisDisplay(synth.err))
            /\ all_model_outputs' = <<>>
    /\ lpc' = "write"
    /\ UNCHANGED <<verify, scan_changed, scan_deleted, significant_commits, prompts,
                   arfs_written, lresult, candidates_parsed>>
    /\ UNCHANGED <<mvars, qvars, cvars, svars, wvars, pvars, rvars>>

\* a step 10 that notes the failure of write_arfs and carries on
LearnWriteCarryingOn(write_ok) ==
    /\ lpc = "write"
    /\ IF Len(unified_arfs) = 0
       THEN UNCHANGED <<arfs_written, lresult>>
       ELSE IF write_ok
       THEN arfs_written' = Len(unified_arfs) /\ UNCHANGED lresult
       ELSE lresult' = Err("Failed to write ARF files") /\ UNCHANGED arfs_written
    /\ lpc' = "update"
    /\ UNCHANGED <<verify, scan_changed, scan_deleted, significant_commits, prompts,
                   all_model_outputs, warnings, unified_arfs, candidates_parsed>>
    /\ UNCHANGED <<mvars, qvars, cvars, svars, wvars, pvars, rvars>>

\* step 10: write_arfs, skipped for an empty list; its failure ends the run
LearnWrite(write_ok) ==
    /\ lpc = "write"
    /\ IF Len(unified_arfs) = 0
       THEN /\ lpc' = "update"
            /\ UNCHANGED <<arfs_written, lresult>>
       ELSE IF write_ok
       THEN /\ arfs_written' = Len(unified_arfs)
            /\ lpc' = "update"
            /\ UNCHANGED lresult
       ELSE /\ lresult' = Err("Failed to write ARF files")
            /\ lpc' = "returned"
            /\ UNCHANGED arfs_written
    /\ UNCHANGED <<verify, scan_changed, scan_deleted, significant_commits, prompts,
                   all_model_outputs, warnings, unified_arfs, candidates_parsed>>
    /\ UNCHANGED <<mvars, qvars, cvars, svars, wvars, pvars, rvars>>

\* step 11: the manifest is updated and save is called
LearnUpdate ==
    /\ lpc = "update"
    /\ Idle
    /\ LET invalidated == find_invalidated_patterns(files, DOMAIN scan_changed, scan_deleted)
       IN  /\ files' = LearnFiles(files, scan_deleted, scan_changed, clock)
           /\ patterns' = LearnPatterns(patterns, invalidated, clock)
           /\ commits' = LearnCommits(commits, significant_commits, clock)
    /\ saveBuf' = ToToml(files', commits', patterns')
    /\ prevDisk' = disk
    /\ savePc' = "create"
    /\ lpc' = "saving"
    /\ UNCHANGED <<clock, disk, tmp>>
    /\ UNCHANGED <<verify, scan_changed, scan_deleted, significant_commits, prompts,
                   all_model_outputs, warnings, unified_arfs, arfs_written, lresult,
                   candidates_parsed>>
    /\ UNCHANGED <<qvars, cvars, svars, wvars, pvars, rvars>>

\* step 12: save has returned Ok, the summary is printed
LearnComplete ==
    /\ lpc = "saving"
    /\ Idle
    /\ lresult' = Ok("=== Learn Complete ===")
    /\ lpc' = "returned"
    /\ UNCHANGED <<verify, scan_changed, scan_deleted, significant_commits, prompts,
                   all_model_outputs, warnings, unified_arfs, arfs_written,
                   candidates_parsed>>
    /\ UNCHANGED <<mvars, qvars, cvars, svars, wvars, pvars, rvars>>

LearnNext ==
    \/ LearnPlan
    \/ \E results \in LearnResultVectors : LearnQuery(results)
    \/ \E synth \in LearnSynthesisResults : LearnSynthesize(synth)
    \/ \E write_ok \in BOOLEAN : LearnWrite(write_ok)
    \/ LearnUpdate
    \/ LearnComplete
    \/ SaveCreate
    \/ SaveWrite
    \/ SaveRename

(***************************************************************************)
(* Text.  A String is the sequence of its characters; every character used *)
(* is ASCII, so byte order, byte length and char length coincide.          *)
(***************************************************************************)
\* the characters of the input universes, in byte order
CharOrder == <<"\n", " ", ".", "A", "X", "a", "b", "c", "d", "f", "i", "q", "r", "s",
               "x", "y", "z">>

Ord(c) == CHOOSE i \in 1..Len(CharOrder) : CharOrder[i] = c

\* char::to_lowercase on the characters in use
LowerChar(c) == CASE c = "A" -> "a" [] c = "F" -> "f" [] c = "X" -> "x" [] OTHER -> c

\* str::to_lowercase
to_lowercase(str) == [i \in 1..Len(str) |-> LowerChar(str[i])]

IsSpace(c) == c \in {" ", "\n"}

\* str::trim_start
RECURSIVE trim_start(_)
trim_start(str) ==
    IF Len(str) > 0 /\ IsSpace(str[1]) THEN trim_start(Tail(str)) ELSE str

\* str::trim_end
RECURSIVE trim_end(_)
trim_end(str) ==
    IF Len(str) > 0 /\ IsSpace(str[Len(str)])
    THEN trim_end(SubSeq(str, 1, Len(str) - 1))
    ELSE str

\* str::trim
trim(str) == trim_end(trim_start(str))

\* str::contains
contains(str, pat) == IsInfix(pat, str)

\* Ord for str: lexicographic on bytes
RECURSIVE StrLess(_, _)
StrLess(a, b) ==
    IF Len(b) = 0 THEN FALSE
    ELSE IF Len(a) = 0 THEN TRUE
    ELSE IF a[1] = b[1] THEN StrLess(Tail(a), Tail(b))
    ELSE Ord(a[1]) < Ord(b[1])

Min3(a, b, c) == IF a <= b /\ a <= c THEN a ELSE IF b <= c THEN b ELSE c

\* edit_distance::edit_distance (Levenshtein)
RECURSIVE edit_distance(_, _)
edit_distance(a, b) ==
    IF Len(a) = 0 THEN Len(b)
    ELSE IF Len(b) = 0 THEN Len(a)
    ELSE Min3(edit_distance(Tail(a), b) + 1,
              edit_distance(a, Tail(b)) + 1,
              edit_distance(Tail(a), Tail(b)) + (IF a[1] = b[1] THEN 0 ELSE 1))

\* str::split(sep) for a one-character separator: the pieces, empty ones too
RECURSIVE SplitFrom(_, _, _)
SplitFrom(str, sep, piece) ==
    IF Len(str) = 0 THEN <<piece>>
    ELSE IF str[1] = sep THEN <<piece>> \o SplitFrom(Tail(str), sep, <<>>)
    ELSE SplitFrom(Tail(str), sep, Append(piece, str[1]))

split(str, sep) == SplitFrom(str, sep, <<>>)

\* Vec<String>::join(sep)
RECURSIVE join(_, _)
join(strs, sep) ==
    IF Len(strs) = 0 THEN <<>>
    ELSE IF Len(strs) = 1 THEN strs[1]
    ELSE strs[1] \o sep \o join(Tail(strs), sep)

\* the distinct elements of a sequence, in first-seen order
RECURSIVE Unique(_, _)
Unique(seq, seen) ==
    IF Len(seq) = 0 THEN seen
    ELSE Unique(Tail(seq), IF Contains(seen, seq[1]) THEN seen ELSE Append(seen, seq[1]))

\* slice::sort on strings (stable insertion into a sorted prefix)
RECURSIVE InsertSorted(_, _)
InsertSorted(sorted, x) ==
    IF Len(sorted) = 0 THEN <<x>>
    ELSE IF StrLess(x, sorted[1]) THEN <<x>> \o sorted
    ELSE <<sorted[1]>> \o InsertSorted(Tail(sorted), x)

RECURSIVE SortStrs(_, _)
SortStrs(seq, acc) ==
    IF Len(seq) = 0 THEN acc ELSE SortStrs(Tail(seq), InsertSorted(acc, seq[1]))

\* Vec::dedup on a sorted vector
Dedup(seq) == Unique(seq, <<>>)

\* the iteration orders of a HashMap or HashSet with the given keys
HashOrders(keys) ==
    {f \in [1..Cardinality(keys) -> keys] : \A k \in keys : \E i \in DOMAIN f : f[i] = k}

(***************************************************************************)
(* Records (src/arf.rs) and the merge step (src/synthesis/merger.rs)       *)
(***************************************************************************)
\* ArfContext::default
DefaultContext ==
    [files |-> <<>>, commits |-> <<>>, dependencies |-> <<>>, outcome |-> EmptyMap]

\* ArfFile::new
ArfFile(what, why, how) ==
    [what |-> what, why |-> why, how |-> how, context |-> DefaultContext]

ArfCategories == {"Migration", "Bug", "Pattern", "Decision", "Fact"}

MigrationWords ==
    {<<"m", "i", "g", "r", "a", "t">>,
     <<"u", "p", "g", "r", "a", "d", "e">>,
     <<"s", "c", "h", "e", "m", "a">>}

BugWords ==
    {<<"b", "u", "g">>,
     <<"f", "i", "x">>,
     <<"p", "a", "t", "c", "h">>}

PatternWords ==
    {<<"p", "a", "t", "t", "e", "r", "n">>,
     <<"c", "o", "n", "v", "e", "n", "t", "i", "o", "n">>,
     <<"s", "t", "a", "n", "d", "a", "r", "d">>}

DecisionWords ==
    {<<"d", "e", "c", "i", "d">>,
     <<"c", "h", "o", "s", "e">>,
     <<"a", "d", "o", "p", "t">>,
     <<"d", "e", "c", "i", "s", "i", "o", "n">>}

\* infer_category
infer_category(arf) ==
    LET combined == to_lowercase(arf.what) \o <<" ">> \o to_lowercase(arf.why)
                    \o <<" ">> \o to_lowercase(arf.how)
        has(words) == \E w \in words : contains(combined, w)
    IN  IF has(MigrationWords) THEN "Migration"
        ELSE IF has(BugWords) THEN "Bug"
        ELSE IF has(PatternWords) THEN "Pattern"
        ELSE IF has(DecisionWords) THEN "Decision"
        ELSE "Fact"

\* synthesize: "Tag each ARF with its source model"
RECURSIVE Tagged(_)
Tagged(outs) ==
    IF Len(outs) = 0 THEN <<>>
    ELSE [i \in 1..Len(outs[1].arf_files) |->
            [model |-> outs[1].model_name, arf |-> outs[1].arf_files[i]]]
         \o Tagged(Tail(outs))

\* group_by_category: category -> its tagged entries, in input order
group_by_category(tagged) ==
    [cat \in {infer_category(tagged[i].arf) : i \in 1..Len(tagged)} |->
        SelectSeq(tagged, LAMBDA t : infer_category(t.arf) = cat)]

\* a search that takes the last cluster within distance 3
LastNear(clusters, what_lower) ==
    LET near == {k \in 1..Len(clusters) :
                    edit_distance(what_lower, to_lowercase(clusters[k][1].arf.what)) < 3}
    IN  IF near = {} THEN 0 ELSE CHOOSE k \in near : \A j \in near : k >= j

\* group_by_similarity, the search for the first cluster within distance 3
FirstNear(clusters, what_lower) ==
    LET near == {k \in 1..Len(clusters) :
                    edit_distance(what_lower, to_lowercase(clusters[k][1].arf.what)) < 3}
    IN  IF near = {} THEN 0 ELSE CHOOSE k \in near : \A j \in near : k <= j

\* group_by_similarity
RECURSIVE group_by_similarity(_, _)
group_by_similarity(tagged, clusters) ==
    IF Len(tagged) = 0 THEN clusters
    ELSE LET k == FirstNear(clusters, to_lowercase(tagged[1].arf.what))
         IN  group_by_similarity(Tail(tagged),
                IF k = 0
                THEN Append(clusters, <<tagged[1]>>)
                ELSE [clusters EXCEPT ![k] = Append(@, tagged[1])])

\* FieldConflict with resolution None
FieldConflict(field, values) ==
    [field |-> field, kind |-> "DifferentValues", values |-> values, resolution |-> None]

\* the trimmed what of every member, in cluster order
TrimmedWhats(cluster) == [i \in 1..Len(cluster) |-> trim(cluster[i].arf.what)]

\* the first element of shortest length: sort_by_key(len) is stable
FirstShortest(seq) ==
    LET i == CHOOSE i \in 1..Len(seq) :
                /\ \A j \in 1..Len(seq) : Len(seq[i]) <= Len(seq[j])
                /\ \A j \in 1..(i - 1) : Len(seq[j]) > Len(seq[i])
    IN  seq[i]

\* merge_what, the conflicts it pushes
merge_what_conflicts(cluster) ==
    IF Cardinality(Range(TrimmedWhats(cluster))) > 1
    THEN <<FieldConflict(<<"what">>,
              [i \in 1..Len(cluster) |->
                  [model |-> cluster[i].model, value |-> TrimmedWhats(cluster)[i]]])>>
    ELSE <<>>

\* a merge that takes the shortest value whether or not it is shared
merge_what_shortest_overall(cluster, order) ==
    IF Len(order) > 0 THEN FirstShortest(order) ELSE <<>>

\* merge_what, the value it returns; order is the iteration order of `counts`
merge_what(cluster, order) ==
    LET whats == TrimmedWhats(cluster)
        count(v) == Cardinality({i \in 1..Len(whats) : whats[i] = v})
        majority == SelectSeq(order, LAMBDA v : count(v) >= 2)
    IN  IF Len(majority) > 0 THEN FirstShortest(majority)
        ELSE IF Len(order) > 0 THEN FirstShortest(order)
        ELSE <<>>

\* a split that keeps the empty pieces
split_sentences_keeping_empty(text) ==
    [i \in 1..Len(split(text, ".")) |-> trim(split(text, ".")[i])]

\* split_sentences
split_sentences(text) ==
    SelectSeq([i \in 1..Len(split(text, ".")) |-> trim(split(text, ".")[i])],
              LAMBDA x : Len(x) > 0)

\* merge_why, the sentences of every member in cluster order
RECURSIVE WhySentences(_)
WhySentences(cluster) ==
    IF Len(cluster) = 0 THEN <<>>
    ELSE split_sentences(cluster[1].arf.why) \o WhySentences(Tail(cluster))

\* a merge that keeps a sentence once per member that has it
merge_why_repeating(cluster) == join(WhySentences(cluster), <<".", " ">>)

\* merge_why
merge_why(cluster) == join(Unique(WhySentences(cluster), <<>>), <<".", " ">>)

\* merge_how
RECURSIVE HowSteps(_)
HowSteps(cluster) ==
    IF Len(cluster) = 0 THEN <<>>
    ELSE LET lines == split(cluster[1].arf.how, "\n")
         IN  SelectSeq([i \in 1..Len(lines) |-> trim(lines[i])], LAMBDA x : Len(x) > 0)
             \o HowSteps(Tail(cluster))

merge_how(cluster) == join(Unique(HowSteps(cluster), <<>>), <<"\n">>)

\* merge_context, one of the three list fields: union in first-seen order, sorted
RECURSIVE ContextList(_, _)
ContextList(cluster, name) ==
    IF Len(cluster) = 0 THEN <<>>
    ELSE cluster[1].arf.context[name] \o ContextList(Tail(cluster), name)

MergedList(cluster, name) == SortStrs(Unique(ContextList(cluster, name), <<>>), <<>>)

\* merge_context, `outcomes`: key -> the (model, value) pairs, in cluster order
OutcomeKeys(cluster) == UNION {DOMAIN cluster[i].arf.context.outcome : i \in 1..Len(cluster)}

OutcomeValues(cluster, key) ==
    LET holders == SelectSeq(cluster, LAMBDA t : key \in DOMAIN t.arf.context.outcome)
    IN  [i \in 1..Len(holders) |->
            [model |-> holders[i].model, value |-> holders[i].arf.context.outcome[key]]]

\* Vec::dedup: drops consecutive repeats only
RECURSIVE DedupAdjacent(_)
DedupAdjacent(seq) ==
    IF Len(seq) <= 1 THEN seq
    ELSE IF seq[1] = seq[2] THEN DedupAdjacent(Tail(seq))
    ELSE <<seq[1]>> \o DedupAdjacent(Tail(seq))

OutcomeConflicting(cluster, key) ==
    LET vals == [i \in 1..Len(OutcomeValues(cluster, key)) |->
                    OutcomeValues(cluster, key)[i].value]
    IN  Len(DedupAdjacent(vals)) # 1

\* merge_context, the conflicts it pushes; order is the iteration order of `outcomes`
merge_context_conflicts(cluster, order) ==
    LET conflicting == SelectSeq(order, LAMBDA key : OutcomeConflicting(cluster, key))
    IN  [i \in 1..Len(conflicting) |->
            FieldConflict(<<"context.outcome.", conflicting[i]>>,
                          OutcomeValues(cluster, conflicting[i]))]

\* merge_context, the context it returns
merge_context(cluster) ==
    [files |-> MergedList(cluster, "files"),
     commits |-> MergedList(cluster, "commits"),
     dependencies |-> MergedList(cluster, "dependencies"),
     outcome |-> [key \in OutcomeKeys(cluster) |-> OutcomeValues(cluster, key)[1].value]]

\* merge_arf_fields: the merged entry and the conflicts, what first
merge_arf_fields(cluster, what_order, outcome_order) ==
    IF Len(cluster) = 1
    THEN [arf |-> cluster[1].arf, conflicts |-> <<>>]
    ELSE [arf |-> [what |-> merge_what(cluster, what_order),
                   why |-> merge_why(cluster),
                   how |-> merge_how(cluster),
                   context |-> merge_context(cluster)],
          conflicts |-> merge_what_conflicts(cluster)
                        \o merge_context_conflicts(cluster, outcome_order)]

(***************************************************************************)
(* Voting (src/synthesis/vote.rs).  Weights and scores are in tenths: the  *)
(* f64 sums of 1.0, 1.1 and 1.2 compare against 2.0 and against each other *)
(* as the tenths do.                                                       *)
(***************************************************************************)
\* the weighted score at which a value wins by majority, in tenths
MajorityThreshold == 20

\* a majority test any score passes
is_majority_always(score) == score >= 0

\* resolve_conflict's test of the best score (score >= 2.0)
is_majority(score) == score >= MajorityThreshold

\* str::to_lowercase on a model name
LowerName(model) == CASE model = "Claude" -> "claude" [] OTHER -> model

\* a weight table that ranks every source alike
model_weight_flat(model) == 10

\* model_weight
model_weight(model) ==
    CASE LowerName(model) = "claude" -> 12
      [] LowerName(model) = "gemini" -> 11
      [] LowerName(model) = "codex" -> 10
      [] OTHER -> 10

MajorityVote(winner, vote_score) ==
    [kind |-> "MajorityVote", winner |-> winner, vote_score |-> vote_score]

HighestWeight(model, weight) == [kind |-> "HighestWeight", model |-> model, weight |-> weight]

Merged == [kind |-> "Merged"]

KeepAll == [kind |-> "KeepAll"]

\* the key of a value in vote_map
NormalizedValue(value) == to_lowercase(trim(value))

\* the keys of vote_map
VoteKeys(values) == {NormalizedValue(values[i].value) : i \in 1..Len(values)}

RECURSIVE SumWeights(_)
SumWeights(models) ==
    IF Len(models) = 0 THEN 0 ELSE model_weight(models[1]) + SumWeights(Tail(models))

\* vote_map[key].0: the summed weight of the sources proposing the key
VoteScore(values, key) ==
    LET agreeing == SelectSeq(values, LAMBDA v : NormalizedValue(v.value) = key)
    IN  SumWeights([i \in 1..Len(agreeing) |-> agreeing[i].model])

\* vote_map[key].1: the value as first proposed
VoteOriginal(values, key) ==
    SelectSeq(values, LAMBDA v : NormalizedValue(v.value) = key)[1].value

\* candidates.first() after the stable sort by descending score
FirstCandidate(values, order) ==
    LET i == CHOOSE i \in 1..Len(order) :
                /\ \A j \in 1..Len(order) :
                      VoteScore(values, order[i]) >= VoteScore(values, order[j])
                /\ \A j \in 1..(i - 1) :
                      VoteScore(values, order[j]) < VoteScore(values, order[i])
    IN  order[i]

\* the loop for best_model: the first source of greatest weight
BestModel(values) ==
    LET i == CHOOSE i \in 1..Len(values) :
                /\ \A j \in 1..Len(values) :
                      model_weight(values[i].model) >= model_weight(values[j].model)
                /\ \A j \in 1..(i - 1) :
                      model_weight(values[j].model) < model_weight(values[i].model)
    IN  values[i].model

\* resolve_conflict; order is the iteration order of vote_map
resolve_conflict(conflict, order) ==
    IF Len(conflict.values) = 0 THEN KeepAll
    ELSE LET first == FirstCandidate(conflict.values, order)
             score == VoteScore(conflict.values, first)
         IN  IF is_majority(score)
             THEN MajorityVote(VoteOriginal(conflict.values, first), score)
             ELSE IF Len(order) > 1
             THEN HighestWeight(BestModel(conflict.values),
                                model_weight(BestModel(conflict.values)))
             ELSE Merged

\* apply_resolution: the value goes to the first entry of the list
apply_resolution(arfs, field, value) ==
    IF Len(arfs) = 0 THEN arfs
    ELSE IF field = <<"what">> THEN [arfs EXCEPT ![1].what = value]
    ELSE IF field = <<"why">> THEN [arfs EXCEPT ![1].why = value]
    ELSE IF field = <<"how">> THEN [arfs EXCEPT ![1].how = value]
    ELSE IF Len(field) = 2 /\ field[1] = "context.outcome."
    THEN [arfs EXCEPT ![1].context.outcome = MapInsert(@, field[2], value)]
    ELSE arfs

\* resolve_all, the body of the loop: what the resolution does to the entries
ResolveOne(arfs, conflict, resolution) ==
    CASE resolution.kind = "MajorityVote" ->
            apply_resolution(arfs, conflict.field, resolution.winner)
      [] resolution.kind = "HighestWeight" ->
            LET named == SelectSeq(conflict.values, LAMBDA v : v.model = resolution.model)
            IN  IF Len(named) > 0
                THEN apply_resolution(arfs, conflict.field, named[1].value)
                ELSE arfs
      [] OTHER -> arfs

\* conflict::detect_conflicts
detect_conflicts(conflicts) == SelectSeq(conflicts, LAMBDA c : c.resolution = None)

\* normalize_arfs
normalize_arfs(arfs) ==
    [i \in 1..Len(arfs) |->
        [what |-> trim(arfs[i].what),
         why |-> trim(arfs[i].why),
         how |-> trim(arfs[i].how),
         context |-> [files |-> Dedup(SortStrs(arfs[i].context.files, <<>>)),
                      commits |-> Dedup(SortStrs(arfs[i].context.commits, <<>>)),
                      dependencies |-> Dedup(SortStrs(arfs[i].context.dependencies, <<>>)),
                      outcome |-> arfs[i].context.outcome]]]

\* final_arfs.sort_by(|a, b| a.what.cmp(&b.what)): stable
RECURSIVE InsertByWhat(_, _)
InsertByWhat(sorted, arf) ==
    IF Len(sorted) = 0 THEN <<arf>>
    ELSE IF StrLess(arf.what, sorted[1].what) THEN <<arf>> \o sorted
    ELSE <<sorted[1]>> \o InsertByWhat(Tail(sorted), arf)

RECURSIVE SortByWhat(_, _)
SortByWhat(arfs, acc) ==
    IF Len(arfs) = 0 THEN acc ELSE SortByWhat(Tail(arfs), InsertByWhat(acc, arfs[1]))

\* SynthesisReport; model_agreement_pct is kept as the fraction it is computed from
SynthesisReport(outs, final_arfs, detected, resolved, manual) ==
    [total_input_arfs |-> TotalArfs(outs),
     total_output_arfs |-> Len(final_arfs),
     conflicts_detected |-> detected,
     conflicts_resolved |-> resolved,
     conflicts_manual |-> manual,
     model_agreement_pct |-> <<Len(final_arfs), TotalArfs(outs)>>,
     models_used |-> [i \in 1..Len(outs) |-> outs[i].model_name]]

(***************************************************************************)
(* synthesize (src/synthesis/mod.rs), step by step                         *)
(***************************************************************************)
\* clusters of every category, the categories taken in the given order
RECURSIVE ClustersInOrder(_, _)
ClustersInOrder(groups, order) ==
    IF Len(order) = 0 THEN <<>>
    ELSE group_by_similarity(groups[order[1]], <<>>) \o ClustersInOrder(groups, Tail(order))

\* a test no batch passes
no_candidates_never(total_input_arfs) == total_input_arfs < 0

\* synthesize's test for a batch without candidates
no_candidates(total_input_arfs) == total_input_arfs = 0

\* synthesize up to the loop over categories: the input count, the tagging,
\* group_by_category and the clustering of each group
SynStart ==
    /\ spc = "start"
    /\ IF no_candidates(TotalArfs(outputs))
       THEN /\ sresult' = Err(NoValidEntries)
            /\ spc' = "returned"
            /\ UNCHANGED pending
       ELSE /\ \E order \in HashOrders(DOMAIN group_by_category(Tagged(outputs))) :
                  pending' = ClustersInOrder(group_by_category(Tagged(outputs)), order)
            /\ spc' = IF pending' = <<>> THEN "resolve" ELSE "merge"
            /\ UNCHANGED sresult
    /\ UNCHANGED <<outputs, merged_arfs, all_conflicts, conflict_origin, next_conflict,
                   resolved_count, manual_count, resolutions, run, firstResult>>
    /\ UNCHANGED <<mvars, qvars, cvars, lvars, wvars, pvars, rvars>>

\* one turn of the inner loop: merge_arf_fields on the next cluster
SynMerge ==
    /\ spc = "merge"
    /\ Len(pending) > 0
    /\ \E what_order \in HashOrders(Range(TrimmedWhats(pending[1]))),
          outcome_order \in HashOrders(OutcomeKeys(pending[1])) :
          LET m == merge_arf_fields(pending[1], what_order, outcome_order)
          IN  /\ merged_arfs' = Append(merged_arfs, m.arf)
              /\ all_conflicts' = all_conflicts \o m.conflicts
              /\ conflict_origin' = conflict_origin
                    \o [i \in 1..Len(m.conflicts) |-> Len(merged_arfs) + 1]
    /\ pending' = Tail(pending)
    /\ spc' = IF Len(pending) = 1 THEN "resolve" ELSE "merge"
    /\ UNCHANGED <<outputs, next_conflict, resolved_count, manual_count, resolutions,
                   sresult, run, firstResult>>
    /\ UNCHANGED <<mvars, qvars, cvars, lvars, wvars, pvars, rvars>>

\* resolve_all, one turn of the loop over the detected conflicts
SynResolve ==
    /\ spc = "resolve"
    /\ next_conflict <= Len(detect_conflicts(all_conflicts))
    /\ LET conflict == detect_conflicts(all_conflicts)[next_conflict]
       IN  \E order \in HashOrders(VoteKeys(conflict.values)) :
              LET resolution == resolve_conflict(conflict, order)
              IN  /\ merged_arfs' = ResolveOne(merged_arfs, conflict, resolution)
                  /\ resolutions' = Append(resolutions, resolution)
                  /\ resolved_count' =
                        IF resolution.kind = "KeepAll" THEN resolved_count
                        ELSE resolved_count + 1
                  /\ manual_count' =
                        IF resolution.kind = "KeepAll" THEN manual_count + 1
                        ELSE manual_count
    /\ next_conflict' = next_conflict + 1
    /\ UNCHANGED <<outputs, spc, pending, all_conflicts, conflict_origin, sresult, run,
                   firstResult>>
    /\ UNCHANGED <<mvars, qvars, cvars, lvars, wvars, pvars, rvars>>

\* the tail of synthesize: normalize, sort by what, build the report
SynFinish ==
    /\ spc = "resolve"
    /\ next_conflict > Len(detect_conflicts(all_conflicts))
    /\ LET final_arfs == SortByWhat(normalize_arfs(merged_arfs), <<>>)
       IN  sresult' = Ok([unified_arfs |-> final_arfs,
                          report |-> SynthesisReport(outputs, final_arfs,
                                        Len(detect_conflicts(all_conflicts)),
                                        resolved_count, manual_count)])
    /\ spc' = "returned"
    /\ UNCHANGED <<outputs, pending, merged_arfs, all_conflicts, conflict_origin,
                   next_conflict, resolved_count, manual_count, resolutions, run,
                   firstResult>>
    /\ UNCHANGED <<mvars, qvars, cvars, lvars, wvars, pvars, rvars>>

\* the caller runs synthesize once more on the same list of ModelOutput
SynRerun ==
    /\ spc = "returned"
    /\ run = 1
    /\ firstResult' = sresult
    /\ run' = 2
    /\ spc' = "start"
    /\ pending' = <<>>
    /\ merged_arfs' = <<>>
    /\ all_conflicts' = <<>>
    /\ conflict_origin' = <<>>
    /\ next_conflict' = 1
    /\ resolved_count' = 0
    /\ manual_count' = 0
    /\ resolutions' = <<>>
    /\ sresult' = NoResult
    /\ UNCHANGED outputs
    /\ UNCHANGED <<mvars, qvars, cvars, lvars, wvars, pvars, rvars>>

SynNext ==
    \/ SynStart
    \/ SynMerge
    \/ SynResolve
    \/ SynFinish
    \/ SynRerun

\* the records the backends return: two near-identical summaries, a distant
\* one, and one that differs from the first in why only (another category)
SynArfs ==
    {ArfFile(<<"a", "b", "c">>, <<"r", ".">>, <<"s">>),
     ArfFile(<<"a", "b", "d">>, <<"r", ".">>, <<"s">>),
     ArfFile(<<"x", "y", "z">>, <<"r", ".">>, <<"s">>),
     ArfFile(<<"a", "b", "c">>, <<"f", "i", "x">>, <<"s">>)}

\* the backends, in the order learn_command lists their outputs
SynModels == <<"claude", "gemini", "codex">>

\* every list of ModelOutput within the bounds
SynOutputs ==
    UNION {[1..n -> {[model_name |-> m, arf_files |-> a] :
                        m \in Range(SynModels), a \in SeqsUpTo(SynArfs, MaxArfs)}] :
              n \in 0..MaxModels}

(***************************************************************************)
(* Specifications                                                          *)
(***************************************************************************)
\* an empty manifest in memory and no manifest file; no call of query_all or
\* of ClaudeClient::query is under way
InitManifest ==
    /\ files = EmptyMap
    /\ commits = EmptyMap
    /\ patterns = EmptyMap
    /\ clock = 0
    /\ disk = NoFile
    /\ tmp = NoFile
    /\ savePc = "idle"
    /\ saveBuf = <<>>
    /\ prevDisk = NoFile
    /\ providers = <<>>
    /\ qpc = "returned"
    /\ status = <<>>
    /\ slot = <<>>
    /\ issued = 0
    /\ successes = <<>>
    /\ failures = <<>>
    /\ qresult = NoResult
    /\ max_retries = 3
    /\ timeout_secs = 30
    /\ cpc = "returned"
    /\ attempts = 0
    /\ backoff_ms = 1000
    /\ attemptLog = <<>>
    /\ sleeps = <<>>
    /\ cresult = NoResult
    /\ verify = FALSE
    /\ scan_changed = EmptyMap
    /\ scan_deleted = {}
    /\ significant_commits = EmptyMap
    /\ lpc = "returned"
    /\ prompts = <<>>
    /\ all_model_outputs = <<>>
    /\ warnings = <<>>
    /\ unified_arfs = <<>>
    /\ arfs_written = 0
    /\ lresult = NoResult
    /\ candidates_parsed = 0
    /\ outputs = <<>>
    /\ spc = "returned"
    /\ pending = <<>>
    /\ merged_arfs = <<>>
    /\ all_conflicts = <<>>
    /\ conflict_origin = <<>>
    /\ next_conflict = 1
    /\ resolved_count = 0
    /\ manual_count = 0
    /\ resolutions = <<>>
    /\ sresult = NoResult
    /\ run = 1
    /\ firstResult = NoResult
    /\ history = <<>>
    /\ wcalls = <<>>
    /\ call_input = NoResult
    /\ call_output = NoResult
    /\ tree = EmptyMap
    /\ repo_commits = EmptyMap
    /\ full = FALSE
    /\ runs = 0
    /\ this_run = NoResult
    /\ prev_run = NoResult

\* query_all is called with any provider list
InitQueryAll ==
    /\ files = EmptyMap
    /\ commits = EmptyMap
    /\ patterns = EmptyMap
    /\ clock = 0
    /\ disk = NoFile
    /\ tmp = NoFile
    /\ savePc = "idle"
    /\ saveBuf = <<>>
    /\ prevDisk = NoFile
    /\ providers \in SeqsUpTo(ProviderNames, MaxProviders)
    /\ qpc = "start"
    /\ status = [i \in 1..Len(providers) |-> "unpolled"]
    /\ slot = [i \in 1..Len(providers) |-> NoResult]
    /\ issued = 0
    /\ successes = <<>>
    /\ failures = <<>>
    /\ qresult = NoResult
    /\ max_retries = 3
    /\ timeout_secs = 30
    /\ cpc = "returned"
    /\ attempts = 0
    /\ backoff_ms = 1000
    /\ attemptLog = <<>>
    /\ sleeps = <<>>
    /\ cresult = NoResult
    /\ verify = FALSE
    /\ scan_changed = EmptyMap
    /\ scan_deleted = {}
    /\ significant_commits = EmptyMap
    /\ lpc = "returned"
    /\ prompts = <<>>
    /\ all_model_outputs = <<>>
    /\ warnings = <<>>
    /\ unified_arfs = <<>>
    /\ arfs_written = 0
    /\ lresult = NoResult
    /\ candidates_parsed = 0
    /\ outputs = <<>>
    /\ spc = "returned"
    /\ pending = <<>>
    /\ merged_arfs = <<>>
    /\ all_conflicts = <<>>
    /\ conflict_origin = <<>>
    /\ next_conflict = 1
    /\ resolved_count = 0
    /\ manual_count = 0
    /\ resolutions = <<>>
    /\ sresult = NoResult
    /\ run = 1
    /\ firstResult = NoResult
    /\ history = <<>>
    /\ wcalls = <<>>
    /\ call_input = NoResult
    /\ call_output = NoResult
    /\ tree = EmptyMap
    /\ repo_commits = EmptyMap
    /\ full = FALSE
    /\ runs = 0
    /\ this_run = NoResult
    /\ prev_run = NoResult

\* ClaudeClient::query is called under any max_retries
InitClaude ==
    /\ files = EmptyMap
    /\ commits = EmptyMap
    /\ patterns = EmptyMap
    /\ clock = 0
    /\ disk = NoFile
    /\ tmp = NoFile
    /\ savePc = "idle"
    /\ saveBuf = <<>>
    /\ prevDisk = NoFile
    /\ providers = <<>>
    /\ qpc = "returned"
    /\ status = <<>>
    /\ slot = <<>>
    /\ issued = 0
    /\ successes = <<>>
    /\ failures = <<>>
    /\ qresult = NoResult
    /\ max_retries \in 0..MaxRetries
    /\ timeout_secs = 30
    /\ cpc = "loop"
    /\ attempts = 0
    /\ backoff_ms = 1000
    /\ attemptLog = <<>>
    /\ sleeps = <<>>
    /\ cresult = NoResult
    /\ verify = FALSE
    /\ scan_changed = EmptyMap
    /\ scan_deleted = {}
    /\ significant_commits = EmptyMap
    /\ lpc = "returned"
    /\ prompts = <<>>
    /\ all_model_outputs = <<>>
    /\ warnings = <<>>
    /\ unified_arfs = <<>>
    /\ arfs_written = 0
    /\ lresult = NoResult
    /\ candidates_parsed = 0
    /\ outputs = <<>>
    /\ spc = "returned"
    /\ pending = <<>>
    /\ merged_arfs = <<>>
    /\ all_conflicts = <<>>
    /\ conflict_origin = <<>>
    /\ next_conflict = 1
    /\ resolved_count = 0
    /\ manual_count = 0
    /\ resolutions = <<>>
    /\ sresult = NoResult
    /\ run = 1
    /\ firstResult = NoResult
    /\ history = <<>>
    /\ wcalls = <<>>
    /\ call_input = NoResult
    /\ call_output = NoResult
    /\ tree = EmptyMap
    /\ repo_commits = EmptyMap
    /\ full = FALSE
    /\ runs = 0
    /\ this_run = NoResult
    /\ prev_run = NoResult

\* the manifest under every sequence of its operations and saves
ManifestNext ==
    \/ ManifestOps(Paths, {"h1"}, PatternIds, CommitShas, {"Fix typo"})
    \/ SaveRun

SpecManifest == InitManifest /\ [][ManifestNext]_vars

\* saving, with I/O errors, crashes and restarts, while time passes
CrashNext ==
    \/ CrashOps
    \/ SaveRun
    \/ SaveCut
    \/ Tick

SpecCrash == InitManifest /\ [][CrashNext]_vars

\* one call of query_all on any provider list
SpecQueryAll == InitQueryAll /\ [][QueryAllNext]_vars

\* one call of ClaudeClient::query under any max_retries
SpecClaude == InitClaude /\ [][ClaudeNext]_vars

\* the same call on a runtime that keeps polling the future: every attempt
\* ends (query_once is bounded by its timeout) and every sleep ends
SpecClaudeFair == InitClaude /\ [][ClaudeNext]_vars /\ WF_vars(ClaudeNext)

\* a learn run on an empty manifest, in either mode, over any scan result
InitLearn ==
    /\ files = EmptyMap
    /\ commits = EmptyMap
    /\ patterns = EmptyMap
    /\ clock = 0
    /\ disk = NoFile
    /\ tmp = NoFile
    /\ savePc = "idle"
    /\ saveBuf = <<>>
    /\ prevDisk = NoFile
    /\ providers = <<>>
    /\ qpc = "returned"
    /\ status = <<>>
    /\ slot = <<>>
    /\ issued = 0
    /\ successes = <<>>
    /\ failures = <<>>
    /\ qresult = NoResult
    /\ max_retries = 3
    /\ timeout_secs = 30
    /\ cpc = "returned"
    /\ attempts = 0
    /\ backoff_ms = 1000
    /\ attemptLog = <<>>
    /\ sleeps = <<>>
    /\ cresult = NoResult
    /\ verify \in BOOLEAN
    /\ scan_changed \in PartialMaps({"a.rs"}, {"h1"})
    /\ scan_deleted = {}
    /\ significant_commits \in PartialMaps(CommitShas, {"Fix typo"})
    /\ lpc = "start"
    /\ prompts = <<>>
    /\ all_model_outputs = <<>>
    /\ warnings = <<>>
    /\ unified_arfs = <<>>
    /\ arfs_written = 0
    /\ lresult = NoResult
    /\ candidates_parsed = 0
    /\ outputs = <<>>
    /\ spc = "returned"
    /\ pending = <<>>
    /\ merged_arfs = <<>>
    /\ all_conflicts = <<>>
    /\ conflict_origin = <<>>
    /\ next_conflict = 1
    /\ resolved_count = 0
    /\ manual_count = 0
    /\ resolutions = <<>>
    /\ sresult = NoResult
    /\ run = 1
    /\ firstResult = NoResult
    /\ history = <<>>
    /\ wcalls = <<>>
    /\ call_input = NoResult
    /\ call_output = NoResult
    /\ tree = EmptyMap
    /\ repo_commits = EmptyMap
    /\ full = FALSE
    /\ runs = 0
    /\ this_run = NoResult
    /\ prev_run = NoResult

\* one run of learn_command whose save succeeds
SpecLearn == InitLearn /\ [][LearnNext]_vars

\* synthesize is called on any list of ModelOutput whose i-th output comes
\* from the i-th backend
InitSynth ==
    /\ files = EmptyMap
    /\ commits = EmptyMap
    /\ patterns = EmptyMap
    /\ clock = 0
    /\ disk = NoFile
    /\ tmp = NoFile
    /\ savePc = "idle"
    /\ saveBuf = <<>>
    /\ prevDisk = NoFile
    /\ providers = <<>>
    /\ qpc = "returned"
    /\ status = <<>>
    /\ slot = <<>>
    /\ issued = 0
    /\ successes = <<>>
    /\ failures = <<>>
    /\ qresult = NoResult
    /\ max_retries = 3
    /\ timeout_secs = 30
    /\ cpc = "returned"
    /\ attempts = 0
    /\ backoff_ms = 1000
    /\ attemptLog = <<>>
    /\ sleeps = <<>>
    /\ cresult = NoResult
    /\ verify = FALSE
    /\ scan_changed = EmptyMap
    /\ scan_deleted = {}
    /\ significant_commits = EmptyMap
    /\ lpc = "returned"
    /\ prompts = <<>>
    /\ all_model_outputs = <<>>
    /\ warnings = <<>>
    /\ unified_arfs = <<>>
    /\ arfs_written = 0
    /\ lresult = NoResult
    /\ candidates_parsed = 0
    /\ outputs \in {o \in SynOutputs : \A i \in 1..Len(o) : o[i].model_name = SynModels[i]}
    /\ spc = "start"
    /\ pending = <<>>
    /\ merged_arfs = <<>>
    /\ all_conflicts = <<>>
    /\ conflict_origin = <<>>
    /\ next_conflict = 1
    /\ resolved_count = 0
    /\ manual_count = 0
    /\ resolutions = <<>>
    /\ sresult = NoResult
    /\ run = 1
    /\ firstResult = NoResult
    /\ history = <<>>
    /\ wcalls = <<>>
    /\ call_input = NoResult
    /\ call_output = NoResult
    /\ tree = EmptyMap
    /\ repo_commits = EmptyMap
    /\ full = FALSE
    /\ runs = 0
    /\ this_run = NoResult
    /\ prev_run = NoResult

\* synthesize called twice on one list of ModelOutput
SpecSynth == InitSynth /\ [][SynNext]_vars

\* the entries all backends agree on: summaries with and without padding,
\* reasons with a final period, two sentences, a repeated sentence and none,
\* steps on one line, repeated and padded
AgreeArfs ==
    {ArfFile(what, why, how) :
        what \in {<<"a", "b", "c">>, <<" ", "A">>},
        why \in {<<"r", ".">>, <<"r", ".", " ", "q">>, <<"r", ".", "r">>, <<"f", "i", "x">>},
        how \in {<<"s">>, <<"s", "\n", "s">>, <<" ", "s", "\n", "\n", "q">>}}

\* the entry with one more letter in its summary: close enough to share a
\* cluster, different enough to conflict
NearEntry(e) == [e EXCEPT !.what = @ \o <<"d">>]

\* the outputs of n backends that each hold one entry: e, or for the later
\* backends listed in differing the entry next to it; the backends listed in
\* silent hold no entry
AgreeOutputs(e, n, differing, silent) ==
    [i \in 1..n |->
        [model_name |-> SynModels[i],
         arf_files |-> IF i \in silent THEN <<>>
                       ELSE <<IF i \in differing THEN NearEntry(e) ELSE e>>]]

\* synthesize is called on backends that hold at most one entry each, the
\* same one or nearly
InitAgree ==
    /\ files = EmptyMap
    /\ commits = EmptyMap
    /\ patterns = EmptyMap
    /\ clock = 0
    /\ disk = NoFile
    /\ tmp = NoFile
    /\ savePc = "idle"
    /\ saveBuf = <<>>
    /\ prevDisk = NoFile
    /\ providers = <<>>
    /\ qpc = "returned"
    /\ status = <<>>
    /\ slot = <<>>
    /\ issued = 0
    /\ successes = <<>>
    /\ failures = <<>>
    /\ qresult = NoResult
    /\ max_retries = 3
    /\ timeout_secs = 30
    /\ cpc = "returned"
    /\ attempts = 0
    /\ backoff_ms = 1000
    /\ attemptLog = <<>>
    /\ sleeps = <<>>
    /\ cresult = NoResult
    /\ verify = FALSE
    /\ scan_changed = EmptyMap
    /\ scan_deleted = {}
    /\ significant_commits = EmptyMap
    /\ lpc = "returned"
    /\ prompts = <<>>
    /\ all_model_outputs = <<>>
    /\ warnings = <<>>
    /\ unified_arfs = <<>>
    /\ arfs_written = 0
    /\ lresult = NoResult
    /\ candidates_parsed = 0
    /\ outputs \in {AgreeOutputs(e, n, differing, silent) :
                        e \in AgreeArfs, n \in 0..MaxModels,
                        differing \in SUBSET (2..MaxModels), silent \in SUBSET (1..MaxModels)}
    /\ spc = "start"
    /\ pending = <<>>
    /\ merged_arfs = <<>>
    /\ all_conflicts = <<>>
    /\ conflict_origin = <<>>
    /\ next_conflict = 1
    /\ resolved_count = 0
    /\ manual_count = 0
    /\ resolutions = <<>>
    /\ sresult = NoResult
    /\ run = 1
    /\ firstResult = NoResult
    /\ history = <<>>
    /\ wcalls = <<>>
    /\ call_input = NoResult
    /\ call_output = NoResult
    /\ tree = EmptyMap
    /\ repo_commits = EmptyMap
    /\ full = FALSE
    /\ runs = 0
    /\ this_run = NoResult
    /\ prev_run = NoResult

\* synthesize called twice on backends that agree
SpecAgree == InitAgree /\ [][SynNext]_vars

\* the sources and values of the conflicts handed to resolve_all
VoteModels == {"claude", "gemini", "codex"}

VoteValues == {<<"x">>, <<" ", "X">>, <<"y">>}

VoteFields == {<<"what">>, <<"why">>}

VoteConflicts ==
    {FieldConflict(f, v) :
        f \in VoteFields,
        v \in SeqsUpTo({[model |-> m, value |-> x] : m \in VoteModels, x \in VoteValues},
                       MaxVotes)}

\* the entries handed to resolve_all with the conflict
VoteArfs ==
    <<ArfFile(<<"a", "b", "c">>, <<"r", ".">>, <<"s">>),
      ArfFile(<<"x", "y", "z">>, <<"r", ".">>, <<"s">>)>>

\* resolve_all is called on two entries and one conflict
InitVote ==
    /\ files = EmptyMap
    /\ commits = EmptyMap
    /\ patterns = EmptyMap
    /\ clock = 0
    /\ disk = NoFile
    /\ tmp = NoFile
    /\ savePc = "idle"
    /\ saveBuf = <<>>
    /\ prevDisk = NoFile
    /\ providers = <<>>
    /\ qpc = "returned"
    /\ status = <<>>
    /\ slot = <<>>
    /\ issued = 0
    /\ successes = <<>>
    /\ failures = <<>>
    /\ qresult = NoResult
    /\ max_retries = 3
    /\ timeout_secs = 30
    /\ cpc = "returned"
    /\ attempts = 0
    /\ backoff_ms = 1000
    /\ attemptLog = <<>>
    /\ sleeps = <<>>
    /\ cresult = NoResult
    /\ verify = FALSE
    /\ scan_changed = EmptyMap
    /\ scan_deleted = {}
    /\ significant_commits = EmptyMap
    /\ lpc = "returned"
    /\ prompts = <<>>
    /\ all_model_outputs = <<>>
    /\ warnings = <<>>
    /\ unified_arfs = <<>>
    /\ arfs_written = 0
    /\ lresult = NoResult
    /\ candidates_parsed = 0
    /\ outputs = <<>>
    /\ spc = "resolve"
    /\ pending = <<>>
    /\ merged_arfs = VoteArfs
    /\ all_conflicts \in {<<c>> : c \in VoteConflicts}
    /\ conflict_origin = <<1>>
    /\ next_conflict = 1
    /\ resolved_count = 0
    /\ manual_count = 0
    /\ resolutions = <<>>
    /\ sresult = NoResult
    /\ run = 1
    /\ firstResult = NoResult
    /\ history = <<>>
    /\ wcalls = <<>>
    /\ call_input = NoResult
    /\ call_output = NoResult
    /\ tree = EmptyMap
    /\ repo_commits = EmptyMap
    /\ full = FALSE
    /\ runs = 0
    /\ this_run = NoResult
    /\ prev_run = NoResult

\* one call of resolve_all
SpecVote == InitVote /\ [][SynResolve]_vars

(***************************************************************************)
(* History walker (git/walker.rs)                                          *)
(***************************************************************************)

\* the hash of the i-th commit created
CommitHash(i) == "c" \o ToString(i)

\* a string that names no commit of the repository
BadHash == "zz"

\* Option<usize> without a value
NoLimit == -1

\* the parents the i-th commit created can have: none for the first, else
\* one earlier commit or two
ParentChoices(i) ==
    IF i = 1 THEN {<<>>}
    ELSE {<<CommitHash(j)>> : j \in 1..(i - 1)}
         \cup {pair \in {<<CommitHash(j), CommitHash(k)>> : j, k \in 1..(i - 1)} :
                  pair[1] # pair[2]}

\* the commit times the model draws from
Timestamps == {1, 2}

\* the repositories of n commits, in order of creation
Histories(n) ==
    {h \in [1..n -> [hash : {CommitHash(i) : i \in 1..n},
                     timestamp : Timestamps,
                     parent_hashes : UNION {ParentChoices(i) : i \in 1..n}]] :
        \A i \in 1..n : /\ h[i].hash = CommitHash(i)
                        /\ h[i].parent_hashes \in ParentChoices(i)}

\* every commit but the first has the commit before it as its only parent
Linear(h) ==
    \A i \in 1..Len(h) :
       h[i].parent_hashes = IF i = 1 THEN <<>> ELSE <<h[i - 1].hash>>

\* repo.find_commit: the commit of hash x in repository h
find_commit(h, x) == h[CHOOSE i \in 1..Len(h) : h[i].hash = x]

\* what revwalk.push(x) makes the walk visit: x and all its ancestors
RECURSIVE Ancestors(_, _)
Ancestors(h, x) ==
    {x} \cup UNION {Ancestors(h, p) : p \in Range(find_commit(h, x).parent_hashes)}

\* Sort::TOPOLOGICAL | Sort::REVERSE: the orders of the visited commits in
\* which every parent comes before its children
TopoOrders(h, visited) ==
    {order \in [1..Cardinality(visited) -> visited] :
        /\ \A i, j \in DOMAIN order : i # j => order[i] # order[j]
        /\ \A i \in DOMAIN order :
              \A p \in Range(find_commit(h, order[i]).parent_hashes) :
                 \E j \in 1..(i - 1) : order[j] = p}

\* the options of a walk; pathspec only narrows the diff statistics
WalkOptions(skip_merges, since_commit, limit) ==
    [skip_merges |-> skip_merges, since_commit |-> since_commit, limit |-> limit]

\* the result of a walk
WalkResult(walked, next_hash) ==
    [ok |-> TRUE, commits |-> walked, next_hash |-> next_hash]

\* the walk failed
WalkError(context) == [ok |-> FALSE, error |-> context]

\* setup_revwalk: the commits the walker will visit, or none when the
\* starting hash cannot be pushed. Without a starting hash the walk starts at
\* the branch head, the commit created last; an empty repository has no
\* branch and gives an empty walk.
setup_revwalk(h, options) ==
    IF options.since_commit # None
    THEN IF \E i \in 1..Len(h) : h[i].hash = options.since_commit
         THEN [ok |-> TRUE, visited |-> Ancestors(h, options.since_commit)]
         ELSE [ok |-> FALSE, visited |-> {}]
    ELSE IF Len(h) > 0
         THEN [ok |-> TRUE, visited |-> Ancestors(h, h[Len(h)].hash)]
         ELSE [ok |-> TRUE, visited |-> {}]

\* extract_commit_metadata, without the message and the diff statistics
extract_commit_metadata(h, x) == find_commit(h, x)

\* the loop of walk_commits over the revwalk, from its i-th commit on
RECURSIVE WalkLoop(_, _, _, _, _)
WalkLoop(h, order, i, walked, options) ==
    IF i > Len(order) THEN WalkResult(walked, None)
    ELSE IF options.limit # NoLimit /\ Len(walked) >= options.limit
         THEN WalkResult(walked, order[i])
    ELSE IF options.skip_merges /\ Len(find_commit(h, order[i]).parent_hashes) > 1
         THEN WalkLoop(h, order, i + 1, walked, options)
    ELSE WalkLoop(h, order, i + 1, Append(walked, extract_commit_metadata(h, order[i])), options)

\* the results walk_commits can return on repository h
walk_commits(h, options) ==
    IF ~setup_revwalk(h, options).ok
    THEN {WalkError("Failed to set up revision walker")}
    ELSE {WalkLoop(h, order, 1, <<>>, options) :
             order \in TopoOrders(h, setup_revwalk(h, options).visited)}

\* the options of a first walk
WalkOptionsSet ==
    {WalkOptions(skip_merges, since_commit, limit) :
        skip_merges \in BOOLEAN,
        since_commit \in {None, BadHash} \cup {CommitHash(i) : i \in 1..MaxCommits},
        limit \in NoLimit..MaxCommits}

\* a first call of walk_commits
WalkCommits(options) ==
    /\ wcalls = <<>>
    /\ options.since_commit \in {None, BadHash} \cup {history[i].hash : i \in 1..Len(history)}
    /\ options.limit <= Len(history)
    /\ \E result \in walk_commits(history, options) :
          wcalls' = Append(wcalls, [options |-> options, result |-> result])
    /\ UNCHANGED <<history>>
    /\ UNCHANGED <<mvars, qvars, cvars, lvars, svars, pvars, rvars>>

\* the caller resumes from the continuation hash of the last walk
\* ("Resume with: --since <next_hash>")
WalkResume(skip_merges, limit) ==
    /\ wcalls # <<>>
    /\ Len(wcalls) < MaxWalks
    /\ wcalls[Len(wcalls)].result.ok
    /\ wcalls[Len(wcalls)].result.next_hash # None
    /\ limit <= Len(history)
    /\ \E result \in walk_commits(history,
                        WalkOptions(skip_merges, wcalls[Len(wcalls)].result.next_hash, limit)) :
          wcalls' = Append(wcalls,
                       [options |-> WalkOptions(skip_merges,
                                                wcalls[Len(wcalls)].result.next_hash, limit),
                        result |-> result])
    /\ UNCHANGED <<history>>
    /\ UNCHANGED <<mvars, qvars, cvars, lvars, svars, pvars, rvars>>

WalkNext ==
    \/ \E options \in WalkOptionsSet : WalkCommits(options)
    \/ \E skip_merges \in BOOLEAN, limit \in NoLimit..MaxCommits : WalkResume(skip_merges, limit)

\* a repository of up to MaxCommits commits, not walked yet
InitWalk ==
    /\ files = EmptyMap
    /\ commits = EmptyMap
    /\ patterns = EmptyMap
    /\ clock = 0
    /\ disk = NoFile
    /\ tmp = NoFile
    /\ savePc = "idle"
    /\ saveBuf = <<>>
    /\ prevDisk = NoFile
    /\ providers = <<>>
    /\ qpc = "returned"
    /\ status = <<>>
    /\ slot = <<>>
    /\ issued = 0
    /\ successes = <<>>
    /\ failures = <<>>
    /\ qresult = NoResult
    /\ max_retries = 3
    /\ timeout_secs = 30
    /\ cpc = "returned"
    /\ attempts = 0
    /\ backoff_ms = 1000
    /\ attemptLog = <<>>
    /\ sleeps = <<>>
    /\ cresult = NoResult
    /\ verify = FALSE
    /\ scan_changed = EmptyMap
    /\ scan_deleted = {}
    /\ significant_commits = EmptyMap
    /\ lpc = "returned"
    /\ prompts = <<>>
    /\ all_model_outputs = <<>>
    /\ warnings = <<>>
    /\ unified_arfs = <<>>
    /\ arfs_written = 0
    /\ lresult = NoResult
    /\ candidates_parsed = 0
    /\ outputs = <<>>
    /\ spc = "returned"
    /\ pending = <<>>
    /\ merged_arfs = <<>>
    /\ all_conflicts = <<>>
    /\ conflict_origin = <<>>
    /\ next_conflict = 1
    /\ resolved_count = 0
    /\ manual_count = 0
    /\ resolutions = <<>>
    /\ sresult = NoResult
    /\ run = 1
    /\ firstResult = NoResult
    /\ history \in UNION {Histories(n) : n \in 0..MaxCommits}
    /\ wcalls = <<>>
    /\ call_input = NoResult
    /\ call_output = NoResult
    /\ tree = EmptyMap
    /\ repo_commits = EmptyMap
    /\ full = FALSE
    /\ runs = 0
    /\ this_run = NoResult
    /\ prev_run = NoResult

\* walks of one repository, each resumed from the one before
SpecWalk == InitWalk /\ [][WalkNext]_vars

(***************************************************************************)
(* find_invalidated_patterns (commands/learn.rs), called on its own        *)
(***************************************************************************)
\* the value a call handed back
Returned(v) == [returned |-> v]

\* the position of a pattern id in String::cmp order
IdIndex(id) == CHOOSE i \in 1..Len(IdOrder) : IdOrder[i] = id

\* Vec::sort on pattern ids, by insertion
RECURSIVE SortIdsInto(_, _)
SortIdsInto(seq, acc) ==
    IF Len(seq) = 0 THEN acc
    ELSE LET x == Head(seq)
             before == SelectSeq(acc, LAMBDA y : IdIndex(y) <= IdIndex(x))
             after == SelectSeq(acc, LAMBDA y : IdIndex(y) > IdIndex(x))
         IN  SortIdsInto(Tail(seq), before \o <<x>> \o after)

\* a result that keeps the iteration order of the HashSet
sort_ids_skipped(seq) == seq

\* result.sort()
sort_ids(seq) == SortIdsInto(seq, <<>>)

\* one of the two loops: every pattern id of every listed path is inserted
RECURSIVE InsertPatternsOf(_, _, _)
InsertPatternsOf(fs, paths, invalidated) ==
    IF Len(paths) = 0 THEN invalidated
    ELSE InsertPatternsOf(fs, Tail(paths),
                          invalidated \cup Range(get_patterns_for_file(fs, Head(paths))))

\* the HashSet after the loop over changed and the loop over deleted
InvalidatedSet(fs, changed, deleted) ==
    InsertPatternsOf(fs, deleted, InsertPatternsOf(fs, changed, {}))

\* the values find_invalidated_patterns can return, one per iteration order
\* of the HashSet
FindInvalidatedResults(fs, changed, deleted) ==
    {sort_ids(order) : order \in HashOrders(InvalidatedSet(fs, changed, deleted))}

\* the paths of the scan: two tracked ones and one the manifest never saw
ScanPaths == Paths \cup {"c.rs"}

\* the pattern-id lists a tracked file can hold
LinkLists == SeqsUpTo(Range(IdOrder), MaxLinks)

\* find_invalidated_patterns(&manifest, &changed, &deleted)
FindInvalidated ==
    /\ call_output = NoResult
    /\ \E found \in FindInvalidatedResults(files, call_input.changed, call_input.deleted) :
          call_output' = Returned(found)
    /\ UNCHANGED <<call_input>>
    /\ UNCHANGED <<mvars, qvars, cvars, lvars, svars, wvars, rvars>>

\* a manifest that tracks both paths, and a scan result
InitInvalidated ==
    /\ files \in {[path \in Paths |-> FileEntry(path, "h1", 0, ids[path])] : ids \in [Paths -> LinkLists]}
    /\ commits = EmptyMap
    /\ patterns = EmptyMap
    /\ clock = 0
    /\ disk = NoFile
    /\ tmp = NoFile
    /\ savePc = "idle"
    /\ saveBuf = <<>>
    /\ prevDisk = NoFile
    /\ providers = <<>>
    /\ qpc = "returned"
    /\ status = <<>>
    /\ slot = <<>>
    /\ issued = 0
    /\ successes = <<>>
    /\ failures = <<>>
    /\ qresult = NoResult
    /\ max_retries = 3
    /\ timeout_secs = 30
    /\ cpc = "returned"
    /\ attempts = 0
    /\ backoff_ms = 1000
    /\ attemptLog = <<>>
    /\ sleeps = <<>>
    /\ cresult = NoResult
    /\ verify = FALSE
    /\ scan_changed = EmptyMap
    /\ scan_deleted = {}
    /\ significant_commits = EmptyMap
    /\ lpc = "returned"
    /\ prompts = <<>>
    /\ all_model_outputs = <<>>
    /\ warnings = <<>>
    /\ unified_arfs = <<>>
    /\ arfs_written = 0
    /\ lresult = NoResult
    /\ candidates_parsed = 0
    /\ outputs = <<>>
    /\ spc = "returned"
    /\ pending = <<>>
    /\ merged_arfs = <<>>
    /\ all_conflicts = <<>>
    /\ conflict_origin = <<>>
    /\ next_conflict = 1
    /\ resolved_count = 0
    /\ manual_count = 0
    /\ resolutions = <<>>
    /\ sresult = NoResult
    /\ run = 1
    /\ firstResult = NoResult
    /\ history = <<>>
    /\ wcalls = <<>>
    /\ call_input \in [changed : SeqsUpTo(ScanPaths, MaxScan), deleted : SeqsUpTo(ScanPaths, MaxScan)]
    /\ call_output = NoResult
    /\ tree = EmptyMap
    /\ repo_commits = EmptyMap
    /\ full = FALSE
    /\ runs = 0
    /\ this_run = NoResult
    /\ prev_run = NoResult

\* one call of find_invalidated_patterns
SpecInvalidated == InitInvalidated /\ [][FindInvalidated]_vars

(***************************************************************************)
(* The manifest in memory: calls of its operations while time passes       *)
(***************************************************************************)
\* the commits a caller records
LedgerShas == {"c1", "c2"}

\* the calls a holder of the manifest makes, with lists of up to MaxLinks
\* elements, repeats included
LedgerOps ==
    \/ \E hash \in Hashes, ids \in SeqsUpTo(PatternIds, MaxLinks) :
          add_or_update_file("a.rs", hash, ids)
    \/ \E sha \in LedgerShas, m \in {"Fix typo", "Add feature"} :
          add_commit(sha, infer_commit_category(m), "")
    \/ \E id \in PatternIds : link_pattern_to_file(id, "a.rs")
    \/ \E id \in PatternIds : invalidate_pattern(id)
    \/ \E id \in PatternIds, name \in PatternNames, cf \in SeqsUpTo({"a.rs"}, MaxLinks) :
          add_or_update_pattern(id, name, cf)
    \/ remove_file("a.rs")

LedgerNext ==
    \/ LedgerOps
    \/ Tick

\* a manifest that is never saved
SpecLedger == InitManifest /\ [][LedgerNext]_vars

(***************************************************************************)
(* merge_arf_fields called on one cluster (src/synthesis/merger.rs)        *)
(***************************************************************************)
\* the entries of a cluster.  Summaries: one padded, one shared after
\* trimming, one as short as another, one shorter than the rest.  Reasons:
\* a final period, two sentences, the same two padded and in the other
\* order, an empty sentence in the middle, and none
MergeEntries ==
    {ArfFile(<<"a", "b">>, <<"r", ".">>, <<"s">>),
     ArfFile(<<" ", "a", "b">>, <<"r", ".", " ", "q">>, <<"s">>),
     ArfFile(<<"c", "d">>, <<"q", " ", ".", "r">>, <<"s">>),
     ArfFile(<<"a">>, <<"x", ".", ".", "r">>, <<"s">>),
     ArfFile(<<"a", "b">>, <<>>, <<"s">>),
     ArfFile(<<"a">>, <<"r", ".", " ", "q">>, <<"s">>),
     ArfFile(<<"c", "d">>, <<"r", ".">>, <<"s">>)}

\* the model a member is tagged with: a model may hold two members
MergeModel(i) == SynModels[((i - 1) % Len(SynModels)) + 1]

\* the clusters of one to MaxCluster members
MergeClusters ==
    UNION {{[i \in 1..n |-> [model |-> MergeModel(i), arf |-> es[i]]] :
               es \in [1..n -> MergeEntries]} :
           n \in 1..MaxCluster}

\* merge_arf_fields(&cluster)
MergeArfFields ==
    /\ call_output = NoResult
    /\ \E what_order \in HashOrders(Range(TrimmedWhats(call_input))),
          outcome_order \in HashOrders(OutcomeKeys(call_input)) :
          call_output' = Returned(merge_arf_fields(call_input, what_order, outcome_order))
    /\ UNCHANGED <<call_input>>
    /\ UNCHANGED <<mvars, qvars, cvars, lvars, svars, wvars, rvars>>

\* one cluster, not merged yet
InitMerge ==
    /\ files = EmptyMap
    /\ commits = EmptyMap
    /\ patterns = EmptyMap
    /\ clock = 0
    /\ disk = NoFile
    /\ tmp = NoFile
    /\ savePc = "idle"
    /\ saveBuf = <<>>
    /\ prevDisk = NoFile
    /\ providers = <<>>
    /\ qpc = "returned"
    /\ status = <<>>
    /\ slot = <<>>
    /\ issued = 0
    /\ successes = <<>>
    /\ failures = <<>>
    /\ qresult = NoResult
    /\ max_retries = 3
    /\ timeout_secs = 30
    /\ cpc = "returned"
    /\ attempts = 0
    /\ backoff_ms = 1000
    /\ attemptLog = <<>>
    /\ sleeps = <<>>
    /\ cresult = NoResult
    /\ verify = FALSE
    /\ scan_changed = EmptyMap
    /\ scan_deleted = {}
    /\ significant_commits = EmptyMap
    /\ lpc = "returned"
    /\ prompts = <<>>
    /\ all_model_outputs = <<>>
    /\ warnings = <<>>
    /\ unified_arfs = <<>>
    /\ arfs_written = 0
    /\ lresult = NoResult
    /\ candidates_parsed = 0
    /\ outputs = <<>>
    /\ spc = "returned"
    /\ pending = <<>>
    /\ merged_arfs = <<>>
    /\ all_conflicts = <<>>
    /\ conflict_origin = <<>>
    /\ next_conflict = 1
    /\ resolved_count = 0
    /\ manual_count = 0
    /\ resolutions = <<>>
    /\ sresult = NoResult
    /\ run = 1
    /\ firstResult = NoResult
    /\ history = <<>>
    /\ wcalls = <<>>
    /\ call_input \in MergeClusters
    /\ call_output = NoResult
    /\ tree = EmptyMap
    /\ repo_commits = EmptyMap
    /\ full = FALSE
    /\ runs = 0
    /\ this_run = NoResult
    /\ prev_run = NoResult

\* merge_arf_fields called once on a cluster
SpecMerge == InitMerge /\ [][MergeArfFields]_vars

(***************************************************************************)
(* Commit significance (src/git/scoring.rs).  A sub-score is a number of   *)
(* hundredths, a weight a number of tenths and a significance a number of  *)
(* thousandths; the code computes in f32.                                  *)
(***************************************************************************)
\* ScoreCategory, lowest first
CategoryOrder == <<"Trivial", "Low", "Medium", "High", "Critical">>

CategoryRank(category) == CHOOSE i \in 1..Len(CategoryOrder) : CategoryOrder[i] = category

\* a conversion that gives a score on a threshold the lower category
from_score_above(score) ==
    IF score > 800 THEN "Critical"
    ELSE IF score > 600 THEN "High"
    ELSE IF score > 400 THEN "Medium"
    ELSE IF score > 200 THEN "Low"
    ELSE "Trivial"

\* ScoreCategory::from_score
from_score(score) ==
    IF score >= 800 THEN "Critical"
    ELSE IF score >= 600 THEN "High"
    ELSE IF score >= 400 THEN "Medium"
    ELSE IF score >= 200 THEN "Low"
    ELSE "Trivial"

\* ScoringConfig::default, file_patterns
DefaultFilePatterns ==
    <<"m", "i", "g", "r", "a", "t", "i", "o", "n", "s", "/">> :> 100 @@
    <<"s", "c", "h", "e", "m", "a", "/">> :> 100 @@
    <<"c", "o", "r", "e", "/">> :> 100 @@
    <<"l", "i", "b", "/", "f", "u", "n", "d", "a", "m", "e", "n", "t", "a", "l", "s", "/">> :> 100 @@
    <<"s", "e", "c", "u", "r", "i", "t", "y", "/">> :> 100 @@
    <<"s", "r", "c", "/">> :> 80 @@
    <<"a", "p", "p", "/", "m", "o", "d", "e", "l", "s", "/">> :> 80 @@
    <<"a", "p", "p", "/", "c", "o", "n", "t", "r", "o", "l", "l", "e", "r", "s", "/">> :> 80 @@
    <<"c", "o", "n", "f", "i", "g", "/">> :> 80 @@
    <<"t", "e", "s", "t", "s", "/">> :> 50 @@
    <<"s", "p", "e", "c", "s", "/">> :> 50 @@
    <<"t", "e", "s", "t", "/">> :> 50 @@
    <<"s", "p", "e", "c", "/">> :> 50 @@
    <<"d", "o", "c", "s", "/", "a", "r", "c", "h", "i", "t", "e", "c", "t", "u", "r", "e", "/">> :> 50 @@
    <<"d", "o", "c", "s", "/">> :> 30 @@
    <<"R", "E", "A", "D", "M", "E">> :> 30 @@
    <<"e", "x", "a", "m", "p", "l", "e", "s", "/">> :> 30 @@
    <<".", "g", "i", "t", "i", "g", "n", "o", "r", "e">> :> 10 @@
    <<".", "e", "d", "i", "t", "o", "r", "c", "o", "n", "f", "i", "g">> :> 10

\* ScoringConfig::default, message_keywords
DefaultMessageKeywords ==
    <<"b", "r", "e", "a", "k", "i", "n", "g", " ", "c", "h", "a", "n", "g", "e">> :> 100 @@
    <<"s", "e", "c", "u", "r", "i", "t", "y", " ", "f", "i", "x">> :> 100 @@
    <<"c", "v", "e", "-">> :> 100 @@
    <<"v", "u", "l", "n", "e", "r", "a", "b", "i", "l", "i", "t", "y">> :> 100 @@
    <<"r", "e", "f", "a", "c", "t", "o", "r">> :> 80 @@
    <<"a", "r", "c", "h", "i", "t", "e", "c", "t", "u", "r", "e">> :> 80 @@
    <<"m", "i", "g", "r", "a", "t", "i", "o", "n">> :> 80 @@
    <<"d", "e", "p", "r", "e", "c", "a", "t", "e">> :> 80 @@
    <<"f", "e", "a", "t", "u", "r", "e">> :> 60 @@
    <<"e", "n", "h", "a", "n", "c", "e", "m", "e", "n", "t">> :> 60 @@
    <<"o", "p", "t", "i", "m", "i", "z", "e">> :> 60 @@
    <<"p", "e", "r", "f", "o", "r", "m", "a", "n", "c", "e">> :> 60 @@
    <<"f", "i", "x">> :> 40 @@
    <<"b", "u", "g">> :> 40 @@
    <<"u", "p", "d", "a", "t", "e">> :> 40 @@
    <<"t", "y", "p", "o">> :> 20 @@
    <<"w", "h", "i", "t", "e", "s", "p", "a", "c", "e">> :> 20 @@
    <<"f", "o", "r", "m", "a", "t", "t", "i", "n", "g">> :> 20 @@
    <<"d", "o", "c", "s">> :> 20

\* ScoringConfig::default
DefaultScoringConfig ==
    [diff_weight |-> 3, pattern_weight |-> 4, message_weight |-> 3,
     file_patterns |-> DefaultFilePatterns, message_keywords |-> DefaultMessageKeywords]

\* the commit as score_commit reads it: parent_count, the paths of the
\* deltas of the diff against the first parent in diff order,
\* insertions + deletions of that diff, and the message
ScoredCommit(parent_count, paths, total_lines, message) ==
    [parent_count |-> parent_count, paths |-> paths, total_lines |-> total_lines,
     message |-> message]

\* the last position of character c in str, 0 when there is none
LastIndexOf(str, c) ==
    IF \E i \in 1..Len(str) : str[i] = c
    THEN CHOOSE i \in 1..Len(str) : str[i] = c /\ \A j \in (i + 1)..Len(str) : str[j] # c
    ELSE 0

\* Path::extension: what follows the last period of the file name, None
\* when the name has no period or only a leading one
extension(path) ==
    LET name == SubSeq(path, LastIndexOf(path, "/") + 1, Len(path))
        dot == LastIndexOf(name, ".")
    IN  IF dot <= 1 THEN None ELSE SubSeq(name, dot + 1, Len(name))

\* is_trivial_diff
is_trivial_diff(commit) ==
    IF commit.total_lines <= 1 THEN TRUE
    ELSE LET total_files == Len(commit.paths)
             trivial_files == Cardinality({i \in 1..Len(commit.paths) :
                                 extension(commit.paths[i]) \in
                                    {<<"m", "d">>, <<"t", "x", "t">>, <<"r", "s", "t">>}})
         IN  total_files > 0 /\ trivial_files * 10 > 8 * total_files

\* score_diff_size, the tiers of total_lines
base_score(total_lines) ==
    IF total_lines <= 10 THEN 10
    ELSE IF total_lines <= 50 THEN 30
    ELSE IF total_lines <= 200 THEN 50
    ELSE IF total_lines <= 500 THEN 70
    ELSE 100

\* score_diff_size: the score and the factors it pushes
score_diff_size(commit) ==
    IF commit.parent_count = 0 \/ commit.parent_count > 1
    THEN [score |-> 50, factors |-> <<>>]
    ELSE LET score == IF is_trivial_diff(commit)
                      THEN base_score(commit.total_lines) \div 2
                      ELSE base_score(commit.total_lines)
         IN  [score |-> score,
              factors |-> <<[kind |-> "DiffSize", lines |-> commit.total_lines,
                             score |-> score]>>]

\* the path substrings that occur in one of the paths; the loop over a
\* table skips every entry that does not occur, so the iteration order of
\* the table matters only among those that do
MatchingKeys(weights, texts) ==
    {key \in DOMAIN weights : \E i \in 1..Len(texts) : contains(texts[i], key)}

\* for (key, score) in &table { if text.contains(key) && *score > max_score }
RECURSIVE ScanTable(_, _, _, _)
ScanTable(text, order, weights, best) ==
    IF Len(order) = 0 THEN best
    ELSE ScanTable(text, Tail(order), weights,
            IF contains(text, order[1]) /\ weights[order[1]] > best.score
            THEN [score |-> weights[order[1]], key |-> order[1]]
            ELSE best)

\* diff.foreach over the deltas
RECURSIVE ScanPathsOf(_, _, _, _)
ScanPathsOf(paths, order, weights, best) ==
    IF Len(paths) = 0 THEN best
    ELSE ScanPathsOf(Tail(paths), order, weights, ScanTable(paths[1], order, weights, best))

\* score_file_patterns; order is the iteration order of config.file_patterns
score_file_patterns(commit, config, order) ==
    IF commit.parent_count = 0 \/ commit.parent_count > 1
    THEN [score |-> 50, factors |-> <<>>]
    ELSE LET best == ScanPathsOf(commit.paths, order, config.file_patterns,
                                 [score |-> 0, key |-> <<>>])
         IN  [score |-> best.score,
              factors |-> IF best.score > 0
                          THEN <<[kind |-> "FilePattern", pattern |-> best.key,
                                  score |-> best.score]>>
                          ELSE <<>>]

\* for (keyword, score) in &config.message_keywords
\*     { if message.contains(&keyword.to_lowercase()) && *score > max_score }
RECURSIVE ScanKeywords(_, _, _, _)
ScanKeywords(message, order, weights, best) ==
    IF Len(order) = 0 THEN best
    ELSE ScanKeywords(message, Tail(order), weights,
            IF contains(message, to_lowercase(order[1])) /\ weights[order[1]] > best.score
            THEN [score |-> weights[order[1]], key |-> order[1]]
            ELSE best)

\* the keywords that occur in the message
MatchingKeywords(weights, message) ==
    {key \in DOMAIN weights : contains(to_lowercase(message), to_lowercase(key))}

\* score_message; order is the iteration order of config.message_keywords
score_message(commit, config, order) ==
    LET best == ScanKeywords(to_lowercase(commit.message), order, config.message_keywords,
                             [score |-> 0, key |-> <<>>])
    IN  [score |-> best.score,
         factors |-> IF best.score > 0
                     THEN <<[kind |-> "MessageKeyword", keyword |-> best.key,
                             score |-> best.score]>>
                     ELSE <<>>]

\* score_commit
score_commit(commit, config, pattern_order, keyword_order) ==
    LET diff == score_diff_size(commit)
        pattern == score_file_patterns(commit, config, pattern_order)
        message == score_message(commit, config, keyword_order)
        significance == diff.score * config.diff_weight
                           + pattern.score * config.pattern_weight
                           + message.score * config.message_weight
    IN  [significance |-> significance,
         category |-> from_score(significance),
         factors |-> diff.factors \o pattern.factors \o message.factors]

\* the paths of the scored commits: documentation at the top and under
\* docs/, a migration and a source file
ScoredPaths ==
    {<<"R", "E", "A", "D", "M", "E", ".", "m", "d">>,
     <<"d", "o", "c", "s", "/", "R", "E", "A", "D", "M", "E", ".", "m", "d">>,
     <<"m", "i", "g", "r", "a", "t", "i", "o", "n", "s", "/", "a", ".", "s", "q", "l">>,
     <<"s", "r", "c", "/", "a", ".", "r", "s">>}

\* the messages of the scored commits
ScoredMessages ==
    {<<"F", "i", "x", " ", "t", "y", "p", "o">>,
     <<"F", "i", "x", " ", "b", "u", "g">>,
     <<"A", "d", "d", " ", "m", "i", "g", "r", "a", "t", "i", "o", "n">>,
     <<"w", "i", "p">>}

\* total changed lines: the ends of every tier and their neighbours
LineCounts == {0, 1, 2, 10, 11, 50, 51, 200, 201, 500, 501}

\* the commits handed to score_commit
ScoredCommits ==
    {ScoredCommit(parent_count, paths, total_lines, message) :
        parent_count \in 0..MaxParents, paths \in SeqsUpTo(ScoredPaths, MaxDeltas),
        total_lines \in LineCounts, message \in ScoredMessages}

\* the scores of the calls made so far
ScoresSoFar == IF call_output = NoResult THEN <<>> ELSE call_output.returned

\* score_commit(&repo, &commit, &config), called up to MaxScoreCalls times
\* on one commit with configurations built by ScoringConfig::default
ScoreCommit ==
    /\ Len(ScoresSoFar) < MaxScoreCalls
    /\ \E pattern_order \in HashOrders(MatchingKeys(call_input.config.file_patterns,
                                                    call_input.commit.paths)),
          keyword_order \in HashOrders(MatchingKeywords(call_input.config.message_keywords,
                                                         call_input.commit.message)) :
          call_output' = Returned(Append(ScoresSoFar,
                            score_commit(call_input.commit, call_input.config,
                                         pattern_order, keyword_order)))
    /\ UNCHANGED <<call_input>>
    /\ UNCHANGED <<mvars, qvars, cvars, lvars, svars, wvars, rvars>>

\* one commit and the default configuration, not scored yet
InitScore ==
    /\ files = EmptyMap
    /\ commits = EmptyMap
    /\ patterns = EmptyMap
    /\ clock = 0
    /\ disk = NoFile
    /\ tmp = NoFile
    /\ savePc = "idle"
    /\ saveBuf = <<>>
    /\ prevDisk = NoFile
    /\ providers = <<>>
    /\ qpc = "returned"
    /\ status = <<>>
    /\ slot = <<>>
    /\ issued = 0
    /\ successes = <<>>
    /\ failures = <<>>
    /\ qresult = NoResult
    /\ max_retries = 3
    /\ timeout_secs = 30
    /\ cpc = "returned"
    /\ attempts = 0
    /\ backoff_ms = 1000
    /\ attemptLog = <<>>
    /\ sleeps = <<>>
    /\ cresult = NoResult
    /\ verify = FALSE
    /\ scan_changed = EmptyMap
    /\ scan_deleted = {}
    /\ significant_commits = EmptyMap
    /\ lpc = "returned"
    /\ prompts = <<>>
    /\ all_model_outputs = <<>>
    /\ warnings = <<>>
    /\ unified_arfs = <<>>
    /\ arfs_written = 0
    /\ lresult = NoResult
    /\ candidates_parsed = 0
    /\ outputs = <<>>
    /\ spc = "returned"
    /\ pending = <<>>
    /\ merged_arfs = <<>>
    /\ all_conflicts = <<>>
    /\ conflict_origin = <<>>
    /\ next_conflict = 1
    /\ resolved_count = 0
    /\ manual_count = 0
    /\ resolutions = <<>>
    /\ sresult = NoResult
    /\ run = 1
    /\ firstResult = NoResult
    /\ history = <<>>
    /\ wcalls = <<>>
    /\ call_input \in [commit : ScoredCommits, config : {DefaultScoringConfig}]
    /\ call_output = NoResult
    /\ tree = EmptyMap
    /\ repo_commits = EmptyMap
    /\ full = FALSE
    /\ runs = 0
    /\ this_run = NoResult
    /\ prev_run = NoResult

\* score_commit called on one commit
SpecScore == InitScore /\ [][ScoreCommit]_vars

\* the scores handed to from_score: every multiple of 0.05 up to
\* MaxScoreSteps steps, and the neighbours of the four thresholds
ScoreSamples ==
    {50 * i : i \in 0..MaxScoreSteps}
       \cup UNION {{t - 1, t + 1} : t \in {200, 400, 600, 800}}

\* ScoreCategory::from_score(s) and ScoreCategory::from_score(t)
FromScore ==
    /\ call_output = NoResult
    /\ call_output' = Returned([i \in 1..2 |-> from_score(call_input[i])])
    /\ UNCHANGED <<call_input>>
    /\ UNCHANGED <<mvars, qvars, cvars, lvars, svars, wvars, rvars>>

\* two scores, not converted yet
InitCategory ==
    /\ files = EmptyMap
    /\ commits = EmptyMap
    /\ patterns = EmptyMap
    /\ clock = 0
    /\ disk = NoFile
    /\ tmp = NoFile
    /\ savePc = "idle"
    /\ saveBuf = <<>>
    /\ prevDisk = NoFile
    /\ providers = <<>>
    /\ qpc = "returned"
    /\ status = <<>>
    /\ slot = <<>>
    /\ issued = 0
    /\ successes = <<>>
    /\ failures = <<>>
    /\ qresult = NoResult
    /\ max_retries = 3
    /\ timeout_secs = 30
    /\ cpc = "returned"
    /\ attempts = 0
    /\ backoff_ms = 1000
    /\ attemptLog = <<>>
    /\ sleeps = <<>>
    /\ cresult = NoResult
    /\ verify = FALSE
    /\ scan_changed = EmptyMap
    /\ scan_deleted = {}
    /\ significant_commits = EmptyMap
    /\ lpc = "returned"
    /\ prompts = <<>>
    /\ all_model_outputs = <<>>
    /\ warnings = <<>>
    /\ unified_arfs = <<>>
    /\ arfs_written = 0
    /\ lresult = NoResult
    /\ candidates_parsed = 0
    /\ outputs = <<>>
    /\ spc = "returned"
    /\ pending = <<>>
    /\ merged_arfs = <<>>
    /\ all_conflicts = <<>>
    /\ conflict_origin = <<>>
    /\ next_conflict = 1
    /\ resolved_count = 0
    /\ manual_count = 0
    /\ resolutions = <<>>
    /\ sresult = NoResult
    /\ run = 1
    /\ firstResult = NoResult
    /\ history = <<>>
    /\ wcalls = <<>>
    /\ call_input \in [1..2 -> ScoreSamples]
    /\ call_output = NoResult
    /\ tree = EmptyMap
    /\ repo_commits = EmptyMap
    /\ full = FALSE
    /\ runs = 0
    /\ this_run = NoResult
    /\ prev_run = NoResult

\* from_score called on two scores
SpecCategory == InitCategory /\ [][FromScore]_vars

(***************************************************************************)
(* group_by_similarity called on one category group                        *)
(***************************************************************************)
\* summaries at edit distance 0 (after lowercasing), 2, 3 and 4 of each other
GroupWhats == {<<"a">>, <<"A">>, <<"a", "b", "c">>, <<"a", "b", "c", "d", "e">>, <<"x", "y", "z">>}

\* the tagged entries of one category, up to MaxTagged of them
GroupInputs ==
    UNION {{[i \in 1..n |-> [model |-> MergeModel(i),
                             arf |-> ArfFile(whats[i], <<"r">>, <<"s">>)]] :
               whats \in [1..n -> GroupWhats]} :
           n \in 0..MaxTagged}

\* group_by_similarity(&tagged)
GroupBySimilarity ==
    /\ call_output = NoResult
    /\ call_output' = Returned(group_by_similarity(call_input, <<>>))
    /\ UNCHANGED <<call_input>>
    /\ UNCHANGED <<mvars, qvars, cvars, lvars, svars, wvars, rvars>>

\* one category group, not clustered yet
InitGroup ==
    /\ files = EmptyMap
    /\ commits = EmptyMap
    /\ patterns = EmptyMap
    /\ clock = 0
    /\ disk = NoFile
    /\ tmp = NoFile
    /\ savePc = "idle"
    /\ saveBuf = <<>>
    /\ prevDisk = NoFile
    /\ providers = <<>>
    /\ qpc = "returned"
    /\ status = <<>>
    /\ slot = <<>>
    /\ issued = 0
    /\ successes = <<>>
    /\ failures = <<>>
    /\ qresult = NoResult
    /\ max_retries = 3
    /\ timeout_secs = 30
    /\ cpc = "returned"
    /\ attempts = 0
    /\ backoff_ms = 1000
    /\ attemptLog = <<>>
    /\ sleeps = <<>>
    /\ cresult = NoResult
    /\ verify = FALSE
    /\ scan_changed = EmptyMap
    /\ scan_deleted = {}
    /\ significant_commits = EmptyMap
    /\ lpc = "returned"
    /\ prompts = <<>>
    /\ all_model_outputs = <<>>
    /\ warnings = <<>>
    /\ unified_arfs = <<>>
    /\ arfs_written = 0
    /\ lresult = NoResult
    /\ candidates_parsed = 0
    /\ outputs = <<>>
    /\ spc = "returned"
    /\ pending = <<>>
    /\ merged_arfs = <<>>
    /\ all_conflicts = <<>>
    /\ conflict_origin = <<>>
    /\ next_conflict = 1
    /\ resolved_count = 0
    /\ manual_count = 0
    /\ resolutions = <<>>
    /\ sresult = NoResult
    /\ run = 1
    /\ firstResult = NoResult
    /\ history = <<>>
    /\ wcalls = <<>>
    /\ call_input \in GroupInputs
    /\ call_output = NoResult
    /\ tree = EmptyMap
    /\ repo_commits = EmptyMap
    /\ full = FALSE
    /\ runs = 0
    /\ this_run = NoResult
    /\ prev_run = NoResult

\* group_by_similarity called once on a category group
SpecGroup == InitGroup /\ [][GroupBySimilarity]_vars

(***************************************************************************)
(* Learn runs, one after the other, on a repository that changes between   *)
(* them (src/commands/learn.rs, src/learn/scanner.rs)                      *)
(***************************************************************************)
\* the manifest a run may find on disk: none, or one that tracks a.rs with
\* the pattern p1 linked to it on both sides
SeededManifest ==
    ToToml([path \in {"a.rs"} |-> FileEntry("a.rs", "h1", 0, <<"p1">>)],
           EmptyMap,
           [id \in {"p1"} |-> PatternEntry("p1", "Error Handling", <<"a.rs">>, 0)])

\* scan_files, the files that need analysis: path -> hash
scan_changed_files(fs, is_full) ==
    [path \in {path \in DOMAIN tree : is_full \/ is_file_changed(fs, path, tree[path])} |->
        tree[path]]

\* ScanResult.deleted: the tracked paths that are gone from the tree
scan_deleted_paths(fs) == (DOMAIN fs) \ (DOMAIN tree)

\* step 3: the unprocessed commits that score Medium or higher
significant_unprocessed(cs, is_full) ==
    [sha \in {sha \in DOMAIN repo_commits : is_full \/ ~is_commit_processed(cs, sha)} |->
        repo_commits[sha]]

\* what a run found: the flags, the repository and the manifest file at its
\* start, and the results of steps 2 to 4
RunRecord(is_full, is_verify, m) ==
    [full |-> is_full, verify |-> is_verify, tree |-> tree, repo_commits |-> repo_commits,
     disk |-> disk,
     changed |-> DOMAIN scan_changed_files(m.files, is_full),
     deleted |-> scan_deleted_paths(m.files),
     significant |-> DOMAIN significant_unprocessed(m.commits, is_full),
     invalidated |-> find_invalidated_patterns(m.files,
                        DOMAIN scan_changed_files(m.files, is_full),
                        scan_deleted_paths(m.files)),
     result |-> NoResult]

\* learn_command(full, verify), steps 1 to 3: load the manifest, scan the
\* files, walk and score the history
LearnStart(is_full, is_verify) ==
    /\ lpc = "returned"
    /\ Idle
    /\ runs < MaxRuns
    /\ LET m == Load(disk)
       IN  /\ files' = m.files
           /\ commits' = m.commits
           /\ patterns' = m.patterns
           /\ scan_changed' = scan_changed_files(m.files, is_full)
           /\ scan_deleted' = scan_deleted_paths(m.files)
           /\ significant_commits' = significant_unprocessed(m.commits, is_full)
           /\ this_run' = RunRecord(is_full, is_verify, m)
    /\ prev_run' = IF this_run = NoResult THEN NoResult
                   ELSE [this_run EXCEPT !.result = lresult]
    /\ full' = is_full
    /\ verify' = is_verify
    /\ runs' = runs + 1
    /\ lpc' = "start"
    /\ prompts' = <<>>
    /\ all_model_outputs' = <<>>
    /\ warnings' = <<>>
    /\ unified_arfs' = <<>>
    /\ arfs_written' = 0
    /\ candidates_parsed' = 0
    /\ lresult' = NoResult
    /\ UNCHANGED <<clock, disk, tmp, savePc, saveBuf, prevDisk, tree, repo_commits>>
    /\ UNCHANGED <<qvars, cvars, svars, wvars, pvars>>

\* between two runs a file is written with other content, or created
EditFile(path, hash) ==
    /\ lpc = "returned"
    /\ runs < MaxRuns
    /\ IF path \in DOMAIN tree THEN tree[path] # hash ELSE TRUE
    /\ tree' = MapInsert(tree, path, hash)
    /\ UNCHANGED <<repo_commits, full, runs, this_run, prev_run>>
    /\ UNCHANGED <<mvars, qvars, cvars, lvars, svars, wvars, pvars>>

\* between two runs a file is deleted
DeleteFile(path) ==
    /\ lpc = "returned"
    /\ runs < MaxRuns
    /\ path \in DOMAIN tree
    /\ tree' = MapRemove(tree, path)
    /\ UNCHANGED <<repo_commits, full, runs, this_run, prev_run>>
    /\ UNCHANGED <<mvars, qvars, cvars, lvars, svars, wvars, pvars>>

\* between two runs a significant commit is made
CommitLands(sha, message) ==
    /\ lpc = "returned"
    /\ runs < MaxRuns
    /\ sha \notin DOMAIN repo_commits
    /\ repo_commits' = MapInsert(repo_commits, sha, message)
    /\ UNCHANGED <<tree, full, runs, this_run, prev_run>>
    /\ UNCHANGED <<mvars, qvars, cvars, lvars, svars, wvars, pvars>>

\* the backends of a run answer alike: all fail, all answer with junk, all
\* answer with one entry
RunResultVectors ==
    {r \in LearnResultVectors :
        \/ \A i \in DOMAIN r : ~r[i].ok
        \/ \A i \in DOMAIN r : r[i].ok /\ r[i].value = r[1].value}

RunsNext ==
    \/ \E is_full \in BOOLEAN, is_verify \in BOOLEAN : LearnStart(is_full, is_verify)
    \/ \E path \in RunPaths, hash \in Hashes : EditFile(path, hash)
    \/ \E path \in RunPaths : DeleteFile(path)
    \/ \E sha \in CommitShas : CommitLands(sha, "Add feature")
    \/ LearnPlan
    \/ \E results \in RunResultVectors : LearnQuery(results)
    \/ \E synth \in LearnSynthesisResults : LearnSynthesize(synth)
    \/ \E write_ok \in BOOLEAN : LearnWrite(write_ok)
    \/ LearnUpdate
    \/ LearnComplete
    \/ SaveCreate
    \/ SaveWrite
    \/ SaveRename

\* no run yet: a repository, and no manifest or the seeded one
InitRuns ==
    /\ files = EmptyMap
    /\ commits = EmptyMap
    /\ patterns = EmptyMap
    /\ clock = 0
    /\ disk \in {NoFile, SeededManifest}
    /\ tmp = NoFile
    /\ savePc = "idle"
    /\ saveBuf = <<>>
    /\ prevDisk = NoFile
    /\ providers = <<>>
    /\ qpc = "returned"
    /\ status = <<>>
    /\ slot = <<>>
    /\ issued = 0
    /\ successes = <<>>
    /\ failures = <<>>
    /\ qresult = NoResult
    /\ max_retries = 3
    /\ timeout_secs = 30
    /\ cpc = "returned"
    /\ attempts = 0
    /\ backoff_ms = 1000
    /\ attemptLog = <<>>
    /\ sleeps = <<>>
    /\ cresult = NoResult
    /\ verify = FALSE
    /\ scan_changed = EmptyMap
    /\ scan_deleted = {}
    /\ significant_commits = EmptyMap
    /\ lpc = "returned"
    /\ prompts = <<>>
    /\ all_model_outputs = <<>>
    /\ warnings = <<>>
    /\ unified_arfs = <<>>
    /\ arfs_written = 0
    /\ lresult = NoResult
    /\ candidates_parsed = 0
    /\ outputs = <<>>
    /\ spc = "returned"
    /\ pending = <<>>
    /\ merged_arfs = <<>>
    /\ all_conflicts = <<>>
    /\ conflict_origin = <<>>
    /\ next_conflict = 1
    /\ resolved_count = 0
    /\ manual_count = 0
    /\ resolutions = <<>>
    /\ sresult = NoResult
    /\ run = 1
    /\ firstResult = NoResult
    /\ history = <<>>
    /\ wcalls = <<>>
    /\ call_input = NoResult
    /\ call_output = NoResult
    /\ tree \in PartialMaps(RunPaths, Hashes)
    /\ repo_commits \in PartialMaps(CommitShas, {"Add feature"})
    /\ full = FALSE
    /\ runs = 0
    /\ this_run = NoResult
    /\ prev_run = NoResult

\* up to MaxRuns learn runs whose saves succeed
SpecRuns == InitRuns /\ [][RunsNext]_vars

(***************************************************************************)
(* Properties                                                              *)
(***************************************************************************)
\* C1: in every reachable manifest the two views agree: p is in
\* files[f].pattern_ids if and only if f is in patterns[p].contributing_files.
ViewsAgree ==
    /\ \A f \in DOMAIN files : \A p \in Range(files[f].pattern_ids) :
          p \in DOMAIN patterns /\ Contains(patterns[p].contributing_files, f)
    /\ \A p \in DOMAIN patterns : \A f \in Range(patterns[p].contributing_files) :
          f \in DOMAIN files /\ Contains(files[f].pattern_ids, p)

\* C2: link_pattern_to_file(p, f) changes the file's pattern-id list and the
\* pattern's contributing-file list together or changes neither.
LinkAllOrNothing ==
    [][\A p \in PatternIds, f \in Paths :
          link_pattern_to_file(p, f) =>
             ((get_patterns_for_file(files', f) # get_patterns_for_file(files, f))
                <=> (patterns' # patterns))]_vars

\* a complete manifest document: the three tables, each once, in order
IsComplete(content) ==
    /\ content # NoFile
    /\ Len(content) = 3
    /\ content = ToToml(FromToml(content).files, FromToml(content).commits,
                        FromToml(content).patterns)

\* C3: whenever save is under way or was cut short by a crash, the file at the
\* manifest path is absent only if it was absent before, and otherwise holds
\* the complete old or the complete new content; a load then reads one of
\* these two stores.
CrashAtomic ==
    /\ disk # NoFile => IsComplete(disk)
    /\ savePc \in {"create", "write", "rename", "crashed"} =>
          /\ disk \in {prevDisk, saveBuf}
          /\ Load(disk) \in {Load(prevDisk), Load(saveBuf)}

\* C3 witness: a crash in the middle of the temp-file write, over an older
\* saved manifest that differs from the one being saved
WitnessCrashMidWrite ==
    /\ savePc = "crashed"
    /\ prevDisk # NoFile
    /\ prevDisk # saveBuf
    /\ disk = prevDisk
    /\ tmp # NoFile
    /\ Len(tmp) \in 1..(Len(saveBuf) - 1)

\* C4: query_all has returned only if every provider's query has finished,
\* and no provider's query is ever dropped while pending.
WaitsForAll ==
    /\ qpc = "returned" => \A i \in 1..Len(providers) : status[i] = "done"
    /\ \A i \in 1..Len(providers) : status[i] # "dropped"

\* C4 witness: one provider has succeeded while another is still pending
WitnessSuccessWhilePending ==
    /\ qpc = "joining"
    /\ \E i \in 1..Len(providers) : status[i] = "done" /\ slot[i].ok
    /\ \E j \in 1..Len(providers) : status[j] = "pending"

\* C5: query_all returns Ok with the aggregate exactly when some provider
\* succeeded; all failing or an empty list gives an error, and an empty list
\* issues no query.
OkIffSomeSuccess ==
    qpc = "returned" =>
       /\ qresult.ok <=>
             \E i \in 1..Len(providers) : status[i] = "done" /\ slot[i].ok
       /\ qresult.ok =>
             /\ qresult.value = [successes |-> successes, failures |-> failures]
             /\ Len(qresult.value.successes) >= 1
       /\ Len(providers) = 0 => ~qresult.ok /\ issued = 0
       /\ Len(providers) > 0 => issued = Len(providers)

\* C5 witness: every provider of a non-empty list failed and the call
\* returned an error
WitnessAllFailed ==
    /\ qpc = "returned"
    /\ Len(providers) >= 2
    /\ \A i \in 1..Len(providers) : status[i] = "done" /\ ~slot[i].ok
    /\ ~qresult.ok

\* C6: when every provider fails, the returned error names every failed
\* backend together with that backend's failure reason.
AllFailedNamesReasons ==
    (qpc = "returned" /\ Len(providers) > 0 /\ ~qresult.ok) =>
       \A i \in 1..Len(providers) :
          /\ Contains(qresult.err.source, providers[i])
          /\ IsInfix(ErrorDisplay(slot[i].err), qresult.err.source)

\* the provider positions whose query ended as wanted, in list order
Positions(wantOk) ==
    SelectSeq([i \in 1..Len(providers) |-> i], LAMBDA i : slot[i].ok = wantOk)

\* C7: at return every provider appears exactly once in successes or
\* failures, each list in provider-list order, and carries the text or the
\* error that provider's own query returned.
BranchesIsolated ==
    (qpc = "returned" /\ Len(providers) > 0) =>
       /\ Len(successes) + Len(failures) = Len(providers)
       /\ Len(successes) = Len(Positions(TRUE))
       /\ Len(failures) = Len(Positions(FALSE))
       /\ \A k \in 1..Len(successes) :
             /\ successes[k].model = providers[Positions(TRUE)[k]]
             /\ successes[k].response = slot[Positions(TRUE)[k]].value
       /\ \A k \in 1..Len(failures) :
             /\ failures[k].model = providers[Positions(FALSE)[k]]
             /\ failures[k].error = ErrorDisplay(slot[Positions(FALSE)[k]].err)

\* C7 witness: a timeout and another failure around successes of siblings
WitnessMixedOutcomes ==
    /\ qpc = "returned"
    /\ qresult.ok
    /\ Len(successes) >= 1
    /\ Len(failures) >= 2
    /\ failures[1].error # failures[2].error
    /\ \E k \in 1..Len(failures) :
          IsInfix(<<"Timeout after ">>, failures[k].error)

\* the result of attempt k
AttemptResult(k) == query_once(attemptLog[k], timeout_secs)

\* C8: an attempt that timed out is counted as a failure and is never
\* followed by a backoff sleep or another attempt.
TimedOutNeverRetried ==
    \A k \in 1..Len(attemptLog) :
       attemptLog[k].cause = "timeout" =>
          /\ k = Len(attemptLog)
          /\ cpc = "returned"
          /\ ~cresult.ok

\* attempt k was followed by a retry (a sleep, then possibly more attempts)
Retried(k) == k < Len(attemptLog) \/ cpc \in {"sleep", "loop", "query_once"}

\* C9: every error class other than AuthenticationFailed is retryable for
\* is_retryable and for should_retry, and query retries it while attempts
\* are left.
AllButAuthRetryable ==
    \A k \in 1..Len(attemptLog) :
       LET r == AttemptResult(k)
       IN  (~r.ok /\ r.err.kind # "AuthenticationFailed") =>
              /\ is_retryable(r.err)
              /\ should_retry(r.err)
              /\ k < max_retries => Retried(k)

\* C9, amended: RequestFailed, RateLimitExceeded and ModelUnavailable are
\* retryable for is_retryable and should_retry and are retried by query while
\* attempts are left; InvalidResponse and AuthenticationFailed are not
\* retryable for either and are never retried.
RetryableClasses ==
    \A k \in 1..Len(attemptLog) :
       LET r == AttemptResult(k)
       IN  ~r.ok =>
              IF r.err.kind \in {"RequestFailed", "RateLimitExceeded", "ModelUnavailable"}
              THEN /\ is_retryable(r.err)
                   /\ should_retry(r.err)
                   /\ k < max_retries => Retried(k)
              ELSE /\ r.err.kind \in {"InvalidResponse", "AuthenticationFailed"}
                   /\ ~is_retryable(r.err)
                   /\ ~should_retry(r.err)
                   /\ ~Retried(k)

\* C9 witness: a retried failure, then a malformed response that ends the
\* call although attempts are left
WitnessInvalidResponseNotRetried ==
    /\ cpc = "returned"
    /\ Len(attemptLog) = 2
    /\ attempts < max_retries
    /\ AttemptResult(1).err.kind = "ModelUnavailable"
    /\ attemptLog[2].cause = "invalid_json"
    /\ cresult = AttemptResult(2)

\* C10: an attempt that fails with AuthenticationFailed is the last one:
\* query has returned that error, and no backoff sleep was taken after it.
AuthFailsAtOnce ==
    \A k \in 1..Len(attemptLog) :
       LET r == AttemptResult(k)
       IN  (~r.ok /\ r.err.kind = "AuthenticationFailed") =>
              /\ k = Len(attemptLog)
              /\ attempts = k
              /\ cpc = "returned"
              /\ cresult = Err(AuthenticationFailed("claude"))
              /\ Len(sleeps) = k - 1

\* C10 witness: the second attempt fails authentication with attempts left
WitnessAuthFailure ==
    /\ cpc = "returned"
    /\ Len(attemptLog) = 2
    /\ attempts < max_retries
    /\ AttemptResult(2) = Err(AuthenticationFailed("claude"))
    /\ sleeps = <<1000>>

\* the larger of two numbers
Max(a, b) == IF a >= b THEN a ELSE b

\* the state part of C11: the attempt bound, retry only after a retryable
\* failure, the backoff series, no sleep after the last attempt, and the
\* returned value
BoundedBackoff ==
    /\ attempts = Len(attemptLog) + (IF cpc = "query_once" THEN 1 ELSE 0)
    /\ attempts <= Max(1, max_retries)
    /\ \A k \in 1..(attempts - 1) :
          /\ ~AttemptResult(k).ok
          /\ AttemptResult(k).err.kind \in
                {"RequestFailed", "RateLimitExceeded", "ModelUnavailable"}
    /\ \A k \in 1..Len(sleeps) : sleeps[k] = 1000 * (2 ^ (k - 1))
    /\ Len(sleeps) = IF cpc \in {"sleep", "loop"} THEN attempts ELSE attempts - 1
    /\ cpc = "returned" =>
          /\ attempts >= 1
          /\ cresult = AttemptResult(attempts)

\* C11: ClaudeClient::query always returns; it makes between one and
\* max(1, max_retries) attempts, starts a new attempt only after a retryable
\* failure, sleeps 1000 * 2^(k-1) ms before the k-th retry and never after the
\* last attempt, and returns the first success or the last attempt's error.
QueryTerminates == []BoundedBackoff /\ <>(cpc = "returned")

\* C11 witness: every allowed attempt failed with a retryable error; the call
\* slept 1000 and 2000 ms and returned the third attempt's error
WitnessRetriesExhausted ==
    /\ cpc = "returned"
    /\ max_retries = 3
    /\ attempts = 3
    /\ sleeps = <<1000, 2000>>
    /\ ~cresult.ok
    /\ cresult.err.kind = "RateLimitExceeded"

\* the run sent at least one prompt to the backends
LearnQueried ==
    ~verify /\ (scan_changed # EmptyMap \/ significant_commits # EmptyMap)

\* C12: a learn run that queried the backends and parsed no candidate (no
\* backend succeeded, or none of the responses parsed) never reaches the
\* manifest update and returns an error.
LearnAbortsWithoutData ==
    (LearnQueried /\ candidates_parsed = 0) =>
       /\ lpc \notin {"update", "saving"}
       /\ lpc = "returned" => ~lresult.ok

\* C13: a turn of the resolve loop leaves every merged entry alone except
\* the one whose cluster recorded the conflict.
ResolutionHitsOwnEntry ==
    [][SynResolve =>
          \A j \in 1..Len(merged_arfs) :
             j # conflict_origin[next_conflict] => merged_arfs'[j] = merged_arfs[j]]_vars

\* the outputs that contribute at least one candidate
Contributing == SelectSeq(outputs, LAMBDA o : Len(o.arf_files) > 0)

\* the two lists hold the same entries the same number of times
SameEntries(a, b) ==
    /\ Len(a) = Len(b)
    /\ \A e \in Range(a) \cup Range(b) :
          Cardinality({i \in 1..Len(a) : a[i] = e}) = Cardinality({i \in 1..Len(b) : b[i] = e})

\* C14: when exactly one backend contributes candidates, synthesize returns
\* those candidates, as many and with the same field values, and reports
\* zero conflicts.
SingleBackendVerbatim ==
    (spc = "returned" /\ Len(Contributing) = 1) =>
       /\ sresult.ok
       /\ SameEntries(sresult.value.unified_arfs, Contributing[1].arf_files)
       /\ sresult.value.report.conflicts_detected = 0

\* every backend returned the one entry e and nothing else
AllReturn(e) ==
    /\ Len(outputs) >= 1
    /\ \A i \in 1..Len(outputs) : outputs[i].arf_files = <<e>>

DistinctPieces(text, sep) ==
    Unique(SelectSeq([i \in 1..Len(split(text, sep)) |-> trim(split(text, sep)[i])],
                     LAMBDA x : Len(x) > 0), <<>>)

\* what the agreed entry e becomes: passed through and trimmed for one
\* backend, merged for two or more
AgreedEntry(e, n) ==
    [what |-> trim(e.what),
     why |-> IF n = 1 THEN trim(e.why) ELSE join(DistinctPieces(e.why, "."), <<".", " ">>),
     how |-> IF n = 1 THEN trim(e.how) ELSE join(DistinctPieces(e.how, "\n"), <<"\n">>),
     context |-> [files |-> Dedup(SortStrs(e.context.files, <<>>)),
                  commits |-> Dedup(SortStrs(e.context.commits, <<>>)),
                  dependencies |-> Dedup(SortStrs(e.context.dependencies, <<>>)),
                  outcome |-> e.context.outcome]]

SynthesizeDeterministic ==
    (run = 2 /\ spc = "returned") => sresult = firstResult

\* the weight the claim gives a source, in tenths
ClaimedWeight(model) ==
    IF model = "claude" THEN 12 ELSE IF model = "gemini" THEN 11 ELSE 10

\* the summed claimed weight of the sources whose value normalizes as the i-th
GroupWeight(values, i) ==
    LET agreeing == {j \in 1..Len(values) :
                        to_lowercase(trim(values[j].value)) = to_lowercase(trim(values[i].value))}
    IN  12 * Cardinality({j \in agreeing : values[j].model = "claude"})
        + 11 * Cardinality({j \in agreeing : values[j].model = "gemini"})
        + 10 * Cardinality({j \in agreeing : values[j].model \notin {"claude", "gemini"}})

\* the conflict resolve_all was handed has been resolved
VoteDone == spc = "resolve" /\ Len(all_conflicts) = 1 /\ Len(resolutions) = 1

\* C17: with weights 1.2 for claude, 1.1 for gemini and 1.0 otherwise, a
\* group is the values equal after trim and lowercase and its weight the sum
\* of its sources' weights; a largest group weight of 2.0 or more gives
\* MajorityVote with that sum as score and a value of that group, as
\* proposed, as winner; otherwise two or more distinct values give
\* HighestWeight naming a source of greatest weight.
ResolutionFollowsWeights ==
    VoteDone =>
       LET values == all_conflicts[1].values
           r == resolutions[1]
           idx == 1..Len(values)
       IN  Len(values) > 0 =>
              LET top == CHOOSE i \in idx :
                            \A j \in idx : GroupWeight(values, i) >= GroupWeight(values, j)
                  distinct == {to_lowercase(trim(values[i].value)) : i \in idx}
              IN  IF GroupWeight(values, top) >= 20
                  THEN /\ r.kind = "MajorityVote"
                       /\ r.vote_score = GroupWeight(values, top)
                       /\ \E i \in idx : /\ GroupWeight(values, i) = GroupWeight(values, top)
                                         /\ r.winner = values[i].value
                  ELSE Cardinality(distinct) >= 2 =>
                          /\ r.kind = "HighestWeight"
                          /\ \E i \in idx : r.model = values[i].model
                          /\ \A i \in idx : ClaimedWeight(r.model) >= ClaimedWeight(values[i].model)
                          /\ r.weight = ClaimedWeight(r.model)

\* C17 witness: x from claude, x from gemini and y from codex give the
\* winner x with score 2.3
WitnessMajorityOfTwo ==
    /\ VoteDone
    /\ all_conflicts[1].values = <<[model |-> "claude", value |-> <<"x">>],
                                   [model |-> "gemini", value |-> <<"x">>],
                                   [model |-> "codex", value |-> <<"y">>]>>
    /\ resolutions[1] = MajorityVote(<<"x">>, 23)

\* the normalized forms of the values of the conflict handed to resolve_all
DistinctValues ==
    {to_lowercase(trim(all_conflicts[1].values[i].value)) :
        i \in 1..Len(all_conflicts[1].values)}

\* C18: a conflict whose values reduce to one distinct value resolves to
\* Merged, however many sources propose it; a conflict without values
\* resolves to KeepAll, and resolve_all then overwrites no field.
OneValueMerges ==
    VoteDone =>
       /\ Cardinality(DistinctValues) = 1 => resolutions[1] = Merged
       /\ Len(all_conflicts[1].values) = 0 =>
             /\ resolutions[1] = KeepAll
             /\ merged_arfs = VoteArfs

\* C18, amended: a conflict whose values reduce to one distinct value
\* resolves to Merged when a single source proposes it (summed weight below
\* 2.0) and to MajorityVote when two or more do; a conflict without values
\* resolves to KeepAll, counted as manual, and resolve_all then overwrites no
\* field.
OneValueMergesBelowMajority ==
    VoteDone =>
       /\ Cardinality(DistinctValues) = 1 =>
             IF Len(all_conflicts[1].values) = 1
             THEN resolutions[1] = Merged /\ merged_arfs = VoteArfs
             ELSE resolutions[1].kind = "MajorityVote"
       /\ Len(all_conflicts[1].values) = 0 =>
             /\ resolutions[1] = KeepAll
             /\ merged_arfs = VoteArfs
             /\ manual_count = 1
             /\ resolved_count = 0

\* C18 witness: one value proposed by claude alone has been resolved to
\* Merged and no field was overwritten
WitnessSingleSourceMerged ==
    /\ VoteDone
    /\ all_conflicts[1].values = <<[model |-> "claude", value |-> <<"x">>]>>
    /\ resolutions[1] = Merged
    /\ merged_arfs = VoteArfs

\* the first two walks: limit K below the N commits of a linear history,
\* from the head, then the rest from the continuation hash
PagedWalk ==
    /\ Linear(history)
    /\ Len(wcalls) = 2
    /\ wcalls[1].options.since_commit = None
    /\ wcalls[1].options.limit # NoLimit
    /\ wcalls[1].options.limit < Len(history)
    /\ wcalls[2].options.limit = NoLimit

\* C19: on a linear history of N commits a walk with limit K < N returns the
\* K oldest commits and a continuation hash, and the walk resumed from that
\* hash returns exactly the other N-K commits, none twice and none skipped.
PaginationResumes ==
    PagedWalk =>
       LET K == wcalls[1].options.limit
       IN  /\ wcalls[1].result.ok
           /\ wcalls[1].result.commits = SubSeq(history, 1, K)
           /\ wcalls[1].result.next_hash # None
           /\ wcalls[2].result.ok
           /\ wcalls[2].result.commits = SubSeq(history, K + 1, Len(history))

\* C20: on a linear history c1..cN a walk with since_commit = ci and no limit
\* returns exactly c(i+1)..cN, oldest first: neither ci nor its ancestors.
SinceReturnsLaterCommits ==
    \A k \in 1..Len(wcalls) :
       \A i \in 1..Len(history) :
          (/\ Linear(history)
           /\ wcalls[k].options.since_commit = history[i].hash
           /\ wcalls[k].options.limit = NoLimit)
          => /\ wcalls[k].result.ok
             /\ wcalls[k].result.commits = SubSeq(history, i + 1, Len(history))

\* C21: on a linear history of N commits a walk from the head without limit
\* returns N entries, each commit once, with timestamps that never decrease
\* from one entry to the next.
WalkChronological ==
    \A k \in 1..Len(wcalls) :
       (/\ Linear(history)
        /\ wcalls[k].options.since_commit = None
        /\ wcalls[k].options.limit = NoLimit)
       => /\ wcalls[k].result.ok
          /\ Len(wcalls[k].result.commits) = Len(history)
          /\ \A i \in 1..Len(history) :
                Cardinality({j \in 1..Len(wcalls[k].result.commits) :
                                wcalls[k].result.commits[j].hash = history[i].hash}) = 1
          /\ \A j \in 1..(Len(wcalls[k].result.commits) - 1) :
                wcalls[k].result.commits[j].timestamp
                   <= wcalls[k].result.commits[j + 1].timestamp

\* the rearrangements of a list
Rearrangements(seq) ==
    {p \in [1..Len(seq) -> Range(seq)] :
        \A x \in Range(seq) :
           Cardinality({i \in 1..Len(seq) : p[i] = x})
              = Cardinality({i \in 1..Len(seq) : seq[i] = x})}

\* the pattern ids of every path of both lists
PatternsOfScan ==
    UNION {Range(get_patterns_for_file(files, path)) :
              path \in Range(call_input.changed) \cup Range(call_input.deleted)}

\* find_invalidated_patterns returned exactly the pattern ids of the scanned
\* paths, each once and in increasing order, as it does for every
\* rearrangement of its two lists
InvalidatedSortedUnion ==
    call_output # NoResult =>
       /\ Range(call_output.returned) = PatternsOfScan
       /\ \A i, j \in 1..Len(call_output.returned) :
             i < j => IdIndex(call_output.returned[i]) < IdIndex(call_output.returned[j])
       /\ \A changed \in Rearrangements(call_input.changed),
             deleted \in Rearrangements(call_input.deleted) :
             FindInvalidatedResults(files, changed, deleted) = {call_output.returned}
       /\ call_output.returned = find_invalidated_patterns(files, Range(call_input.changed),
                                                  Range(call_input.deleted))

\* C22: find_invalidated_patterns returns exactly the union of
\* get_patterns_for_file over every path of both lists, duplicate-free and
\* sorted, the same for every permutation of the lists, and leaves the
\* manifest unchanged.
InvalidatedDeterministic ==
    /\ []InvalidatedSortedUnion
    /\ [][FindInvalidated => UNCHANGED <<files, commits, patterns>>]_vars

\* C22 witness: a.rs holds p2 then p1, b.rs holds p1; scanning b.rs as
\* changed and a.rs as deleted returned p1, p2
WitnessInvalidatedSorted ==
    /\ files["a.rs"].pattern_ids = <<"p2", "p1">>
    /\ files["b.rs"].pattern_ids = <<"p1">>
    /\ call_input.changed = <<"b.rs">>
    /\ call_input.deleted = <<"a.rs">>
    /\ call_output = Returned(<<"p1", "p2">>)

\* how often x occurs in a list
Occurrences(seq, x) == Cardinality({i \in 1..Len(seq) : seq[i] = x})

\* C23: for a tracked file f and a registered pattern p, a second
\* link_pattern_to_file(p, f) changes nothing the first one left, and after
\* it p occurs exactly once in f's pattern-id list and f exactly once in p's
\* contributing-file list.
LinkIdempotent ==
    \A id \in PatternIds, path \in {"a.rs"} :
       (path \in DOMAIN files /\ id \in DOMAIN patterns) =>
          LET fs1 == LinkFileSide(files, id, path)
              ps1 == LinkPatternSide(patterns, id, path)
          IN  /\ LinkFileSide(fs1, id, path) = fs1
              /\ LinkPatternSide(ps1, id, path) = ps1
              /\ Occurrences(fs1[path].pattern_ids, id) = 1
              /\ Occurrences(ps1[id].contributing_files, path) = 1

\* the categories add_commit is called with
LedgerCategories == {infer_commit_category(m) : m \in {"Fix typo", "Add feature"}}

\* C24: a commit that is_commit_processed reports stays reported through
\* every later manifest operation; add_commit(h, ...) makes h reported, and
\* recording a reported h again leaves the number of commit entries as it
\* was.
LedgerAppendOnly ==
    [][/\ \A sha \in LedgerShas :
             is_commit_processed(commits, sha) => is_commit_processed(commits', sha)
       /\ \A sha \in LedgerShas, category \in LedgerCategories :
             add_commit(sha, category, "") =>
                /\ is_commit_processed(commits', sha)
                /\ is_commit_processed(commits, sha) =>
                      Cardinality(DOMAIN commits') = Cardinality(DOMAIN commits)]_vars

\* C24 witness: c1 was recorded at time 0 and is still reported after c2 was
\* recorded at time 1
WitnessLedgerKeepsFirst ==
    /\ is_commit_processed(commits, "c1")
    /\ commits["c1"].processed_at = 0
    /\ is_commit_processed(commits, "c2")
    /\ commits["c2"].processed_at = 1

\* C25: the entry of a recorded commit (processed timestamp, category,
\* record pointer) is the same after every later manifest operation,
\* add_commit on the same hash included.
CommitEntryFrozen ==
    [][\A sha \in LedgerShas :
          sha \in DOMAIN commits => (sha \in DOMAIN commits' /\ commits'[sha] = commits[sha])]_vars

\* C26: invalidate_pattern(p) keeps every file and commit entry, every
\* pattern entry but p's, and of p's entry everything but last_updated, which
\* does not decrease; for an unknown p nothing changes.
InvalidateTouchesTimestampOnly ==
    [][\A id \in PatternIds :
          invalidate_pattern(id) =>
             /\ files' = files
             /\ commits' = commits
             /\ DOMAIN patterns' = DOMAIN patterns
             /\ \A q \in DOMAIN patterns :
                   /\ patterns'[q].id = patterns[q].id
                   /\ patterns'[q].name = patterns[q].name
                   /\ patterns'[q].contributing_files = patterns[q].contributing_files
                   /\ patterns'[q].last_updated >= patterns[q].last_updated
                   /\ q # id => patterns'[q] = patterns[q]
             /\ id \notin DOMAIN patterns => patterns' = patterns]_vars

\* C26 witness: p1 was registered with a.rs at time 0 and carries time 1,
\* a.rs still holds its link
WitnessInvalidated ==
    /\ clock = 1
    /\ "p1" \in DOMAIN patterns
    /\ patterns["p1"].contributing_files = <<"a.rs">>
    /\ patterns["p1"].last_updated = 1
    /\ "a.rs" \in DOMAIN files
    /\ files["a.rs"].pattern_ids = <<"p1">>
    /\ files["a.rs"].last_scanned = 0

\* is_file_changed answers true for an untracked path and, for a tracked one,
\* false exactly for the tracked hash
ChangedUnlessSameHash ==
    \A path \in {"a.rs", "b.rs"}, hash \in Hashes :
       is_file_changed(files, path, hash)
          = (path \notin DOMAIN files \/ files[path].hash # hash)

\* C27: is_file_changed(path, h) is true for every untracked path and, for a
\* tracked path, false if and only if the tracked hash equals h; right after
\* add_or_update_file(path, h, _) it is false for (path, h).
FileChangedIffHashDiffers ==
    /\ []ChangedUnlessSameHash
    /\ [][\A hash \in Hashes, ids \in SeqsUpTo(PatternIds, MaxLinks) :
             add_or_update_file("a.rs", hash, ids) => ~is_file_changed(files', "a.rs", hash)]_vars

\* C27 witness: a.rs is tracked with h2, so it counts as changed against h1
\* and unchanged against h2, and the untracked b.rs counts as changed
WitnessTrackedHash ==
    /\ "a.rs" \in DOMAIN files
    /\ files["a.rs"].hash = "h2"
    /\ is_file_changed(files, "a.rs", "h1")
    /\ ~is_file_changed(files, "a.rs", "h2")
    /\ is_file_changed(files, "b.rs", "h2")

\* C28: synthesize returns the NoValidEntries error when no ModelOutput holds
\* a candidate, an empty list of outputs included, and Ok when at least one
\* does.
EmptyBatchIsError ==
    spc = "returned" =>
       /\ (\A i \in 1..Len(outputs) : Len(outputs[i].arf_files) = 0)
             => sresult = Err(NoValidEntries)
       /\ (\E i \in 1..Len(outputs) : Len(outputs[i].arf_files) > 0)
             => sresult.ok

\* C28 witness: two backends without candidates got the error
WitnessTwoSilentBackends ==
    /\ spc = "returned"
    /\ Len(outputs) = 2
    /\ outputs[1].arf_files = <<>>
    /\ outputs[2].arf_files = <<>>
    /\ sresult = Err(NoValidEntries)

\* the sentences of a reason: its trimmed non-empty pieces between periods
SentencesOf(text) ==
    LET pieces == split(text, ".")
    IN  SelectSeq([i \in 1..Len(pieces) |-> trim(pieces[i])], LAMBDA piece : piece # <<>>)

\* the places <<member, position>> at which a sentence occurs
PlacesOf(cluster, sentence) ==
    {place \in UNION {{<<i, j>> : j \in 1..Len(SentencesOf(cluster[i].arf.why))} :
                         i \in 1..Len(cluster)} :
        SentencesOf(cluster[place[1]].arf.why)[place[2]] = sentence}

\* place p comes before place q
PlaceBefore(p, q) == p[1] < q[1] \/ (p[1] = q[1] /\ p[2] < q[2])

\* sentence x is seen before sentence y for the first time
SeenBefore(cluster, x, y) ==
    \E p \in PlacesOf(cluster, x) : \A q \in PlacesOf(cluster, y) : PlaceBefore(p, q)

\* the lists that hold every sentence of every member exactly once, in
\* first-seen order
FirstSeenLists(cluster) ==
    LET all == UNION {Range(SentencesOf(cluster[i].arf.why)) : i \in 1..Len(cluster)}
    IN  {list \in [1..Cardinality(all) -> all] :
            /\ \A sentence \in all : \E k \in DOMAIN list : list[k] = sentence
            /\ \A a, b \in DOMAIN list :
                  a < b => SeenBefore(cluster, list[a], list[b])}

\* C29: for a cluster of two or more members the merged why is the list of
\* the trimmed non-empty period-separated sentences of all members, each
\* distinct sentence once and in first-seen order, joined with ". ".
MergedWhyDistinctSentences ==
    (call_output # NoResult /\ Len(call_input) >= 2) =>
       \E list \in FirstSeenLists(call_input) :
          call_output.returned.arf.why = join(list, <<".", " ">>)

\* C29 witness: two members share the sentence r, the second adds q, and
\* the merged why holds r once
WitnessSharedSentenceOnce ==
    /\ call_output # NoResult
    /\ Len(call_input) = 2
    /\ call_input[1].arf.why = <<"r", ".">>
    /\ call_input[2].arf.why = <<"r", ".", " ", "q">>
    /\ call_output.returned.arf.why = <<"r", ".", " ", "q">>

\* the conflicts recorded on the field what
WhatConflicts(conflicts) == SelectSeq(conflicts, LAMBDA c : c.field = <<"what">>)

\* the trimmed what values that the merged what is chosen from: those of two
\* or more members, or all when none is shared
WhatPool(cluster) ==
    LET value(i) == trim(cluster[i].arf.what)
        shared == {value(i) : i \in {i \in 1..Len(cluster) :
                                        \E j \in 1..Len(cluster) : j # i /\ value(j) = value(i)}}
    IN  IF shared # {} THEN shared ELSE {value(i) : i \in 1..Len(cluster)}

\* C30: for a cluster of two or more members merge_arf_fields records a
\* conflict on what, carrying the (source, value) pair of every member,
\* exactly when the members have two or more distinct trimmed what values;
\* the merged what is a shortest value among those of two or more members
\* or, when none is shared, a shortest value overall.
MergedWhatShortestShared ==
    (call_output # NoResult /\ Len(call_input) >= 2) =>
       LET out == call_output.returned
           distinct == {trim(call_input[i].arf.what) : i \in 1..Len(call_input)}
       IN  /\ Cardinality(distinct) >= 2 <=> WhatConflicts(out.conflicts) # <<>>
           /\ \A k \in 1..Len(WhatConflicts(out.conflicts)) :
                 WhatConflicts(out.conflicts)[k].values =
                    [i \in 1..Len(call_input) |->
                        [model |-> call_input[i].model,
                         value |-> trim(call_input[i].arf.what)]]
           /\ Len(WhatConflicts(out.conflicts)) <= 1
           /\ out.arf.what \in WhatPool(call_input)
           /\ \A v \in WhatPool(call_input) : Len(out.arf.what) <= Len(v)

\* C30 witness: two members propose ab, one of them padded, a third the
\* shorter a; the merged what is ab and one conflict is recorded
WitnessSharedBeatsShorter ==
    /\ call_output # NoResult
    /\ Len(call_input) = 3
    /\ call_input[1].arf.what = <<"a", "b">>
    /\ call_input[2].arf.what = <<" ", "a", "b">>
    /\ call_input[3].arf.what = <<"a">>
    /\ call_output.returned.arf.what = <<"a", "b">>
    /\ Len(WhatConflicts(call_output.returned.conflicts)) = 1

\* C31: every call of score_commit on one commit with one configuration
\* returns the same significance, category and factor list.
ScoreReproducible ==
    \A i, j \in 1..Len(ScoresSoFar) : ScoresSoFar[i] = ScoresSoFar[j]

\* the paths with a documentation extension, and the others
DocPaths == {path \in ScoredPaths : extension(path) \in {<<"m", "d">>, <<"t", "x", "t">>, <<"r", "s", "t">>}}

CodePaths == ScoredPaths \ DocPaths

\* C32: the diff score of a single-parent commit that touches only
\* documentation files is at most half the diff score of a single-parent
\* commit of the same number of changed lines that touches only code files.
DocDiffAtMostHalf ==
    \A k \in 1..Len(ScoresSoFar) :
       LET commit == call_input.commit
       IN  (/\ commit.parent_count = 1
            /\ Len(commit.paths) > 0
            /\ Range(commit.paths) \subseteq DocPaths)
           => \A code \in SeqsUpTo(CodePaths, MaxDeltas) :
                 Len(code) > 0 =>
                    2 * ScoresSoFar[k].factors[1].score
                       <= score_diff_size([commit EXCEPT !.paths = code]).score

\* C33: a commit that touches only README.md, changes one line and says
\* "Fix typo" is Trivial or Low under the default configuration.
TypoFixIsMinor ==
    \A k \in 1..Len(ScoresSoFar) :
       (/\ call_input.config = DefaultScoringConfig
        /\ call_input.commit.paths = <<<<"R", "E", "A", "D", "M", "E", ".", "m", "d">>>>
        /\ call_input.commit.total_lines = 1
        /\ call_input.commit.message = <<"F", "i", "x", " ", "t", "y", "p", "o">>)
       => ScoresSoFar[k].category \in {"Trivial", "Low"}

\* C34: a commit that touches a file under migrations/, changes more than
\* 200 lines and has "migration" in its message is High or Critical under
\* the default configuration.
MigrationIsMajor ==
    \A k \in 1..Len(ScoresSoFar) :
       (/\ call_input.config = DefaultScoringConfig
        /\ \E i \in 1..Len(call_input.commit.paths) :
              contains(call_input.commit.paths[i], <<"m", "i", "g", "r", "a", "t", "i", "o", "n", "s", "/">>)
        /\ call_input.commit.total_lines > 200
        /\ contains(to_lowercase(call_input.commit.message), <<"m", "i", "g", "r", "a", "t", "i", "o", "n">>))
       => ScoresSoFar[k].category \in {"High", "Critical"}

\* the category the thresholds 0.2, 0.4, 0.6 and 0.8 give a score
CategoryByThresholds(score) ==
    CategoryOrder[1 + Cardinality({t \in {200, 400, 600, 800} : score >= t})]

\* C35: from_score is monotonic nondecreasing in the order Trivial < Low <
\* Medium < High < Critical, and the category changes exactly at 0.2, 0.4,
\* 0.6 and 0.8, a score on a threshold getting the higher category.
CategoryMonotonic ==
    call_output # NoResult =>
       /\ call_input[1] <= call_input[2]
             => CategoryRank(call_output.returned[1]) <= CategoryRank(call_output.returned[2])
       /\ \A i \in 1..2 : call_output.returned[i] = CategoryByThresholds(call_input[i])

\* C35 witness: a score just below a threshold and the threshold itself were
\* converted to neighbouring categories
WitnessThresholdStep ==
    /\ call_output # NoResult
    /\ call_input = <<599, 600>>
    /\ call_output.returned = <<"Medium", "High">>

\* sub can be had from seq by leaving elements out
RECURSIVE IsSubsequence(_, _)
IsSubsequence(sub, seq) ==
    IF Len(sub) = 0 THEN TRUE
    ELSE IF Len(seq) = 0 THEN FALSE
    ELSE IF sub[1] = seq[1] THEN IsSubsequence(Tail(sub), Tail(seq))
    ELSE IsSubsequence(sub, Tail(seq))

\* the summaries of two tagged entries are close
Near(x, y) == edit_distance(to_lowercase(x.arf.what), to_lowercase(y.arf.what)) < 3

\* C37: group_by_similarity takes the candidates in input order and puts
\* each one into the first cluster, in creation order, whose first member
\* is at edit distance < 3 of it after lowercasing, else into a new cluster:
\* the clusters partition the input, keep the input order, and every member
\* is close to the first member of its cluster and of no earlier cluster.
ClustersByFirstMember ==
    call_output # NoResult =>
       LET clusters == call_output.returned
       IN  /\ \A k \in 1..Len(clusters) :
                /\ Len(clusters[k]) > 0
                /\ IsSubsequence(clusters[k], call_input)
                /\ \A i \in 1..Len(clusters[k]) :
                      /\ Near(clusters[k][i], clusters[k][1])
                      /\ \A j \in 1..(k - 1) : ~Near(clusters[k][i], clusters[j][1])
           /\ IsSubsequence([k \in 1..Len(clusters) |-> clusters[k][1]], call_input)
           /\ \A e \in Range(call_input) :
                 Cardinality({i \in 1..Len(call_input) : call_input[i] = e})
                    = Cardinality({<<k, i>> \in (1..Len(clusters)) \X (1..Len(call_input)) :
                                      i <= Len(clusters[k]) /\ clusters[k][i] = e})
           /\ \A k \in 1..Len(clusters) : Range(clusters[k]) \subseteq Range(call_input)

\* C37 witness: abc, a and abcde end in one cluster although a and abcde
\* are at distance 4 of each other
WitnessFarMembersShareCluster ==
    /\ call_output # NoResult
    /\ Len(call_input) = 3
    /\ call_input[1].arf.what = <<"a", "b", "c">>
    /\ call_input[2].arf.what = <<"a">>
    /\ call_input[3].arf.what = <<"a", "b", "c", "d", "e">>
    /\ call_output.returned = <<call_input>>
    /\ ~Near(call_input[2], call_input[3])

\* steps 2 to 4 of the latest run found something to do
RunHasWork ==
    \/ this_run.changed # {}
    \/ this_run.deleted # {}
    \/ this_run.significant # {}
    \/ this_run.invalidated # <<>>

InvalidatedInEveryRun ==
    (this_run # NoResult /\ prev_run # NoResult) =>
       \A path \in RunPaths, id \in PatternIds :
          (/\ path \in prev_run.changed
           /\ path \in this_run.changed
           /\ id \in Range(get_patterns_for_file(Load(prev_run.disk).files, path))
           /\ Contains(prev_run.invalidated, id))
          => Contains(this_run.invalidated, id)

\* C39: an incremental run that follows a completed run on an unchanged
\* repository finds no changed or deleted file, no unprocessed significant
\* commit and no invalidated pattern, reports nothing to learn, issues no
\* query and leaves the manifest file alone.
SecondRunFindsNothing ==
    (/\ this_run # NoResult
     /\ prev_run # NoResult
     /\ prev_run.result = Ok("=== Learn Complete ===")
     /\ ~this_run.full
     /\ this_run.tree = prev_run.tree
     /\ this_run.repo_commits = prev_run.repo_commits)
    => /\ ~RunHasWork
       /\ lpc \in {"start", "returned"}
       /\ lpc = "returned" => lresult = Ok("Nothing to learn. Codebase is up to date.")
       /\ candidates_parsed = 0 /\ prompts = <<>>
       /\ savePc = "idle" /\ tmp = NoFile /\ disk = this_run.disk

\* C39 witness: the first run recorded a changed file and a commit, the
\* second one returned with nothing to learn
WitnessNothingToLearn ==
    /\ this_run # NoResult
    /\ prev_run # NoResult
    /\ prev_run.result = Ok("=== Learn Complete ===")
    /\ prev_run.changed = {"a.rs"}
    /\ prev_run.significant = {"c1"}
    /\ ~this_run.full
    /\ this_run.tree = prev_run.tree
    /\ this_run.repo_commits = prev_run.repo_commits
    /\ lpc = "returned"
    /\ lresult = Ok("Nothing to learn. Codebase is up to date.")

\* the run is between its start and the end of step 10
BeforeManifestUpdate == lpc \in {"start", "query", "synthesize", "write"}

\* C40: a learn run mutates and saves the manifest only after the queries,
\* the synthesis and the record writing: nothing of the manifest changes
\* while a query is in flight or before step 11, save starts only in step
\* 11 and the manifest in memory does not change after it, and when
\* write_arfs fails the manifest file is what the run loaded.
ManifestUpdatedLast ==
    /\ [][BeforeManifestUpdate =>
             UNCHANGED <<files, commits, patterns, disk, tmp, savePc>>]_vars
    /\ [][(savePc = "idle" /\ savePc' # "idle") => (lpc = "update" /\ lpc' = "saving")]_vars
    /\ [][lpc = "saving" => UNCHANGED <<files, commits, patterns>>]_vars
    /\ [](lresult = Err("Failed to write ARF files") =>
             /\ disk = this_run.disk
             /\ tmp = NoFile
             /\ [files |-> files, commits |-> commits, patterns |-> patterns]
                   = Load(this_run.disk))

\* C40 witness: a run with a changed file failed in write_arfs and the
\* manifest file is the one it loaded
WitnessWriteFailed ==
    /\ this_run # NoResult
    /\ this_run.changed = {"a.rs"}
    /\ lpc = "returned"
    /\ lresult = Err("Failed to write ARF files")
    /\ disk = this_run.disk

====
